---------------------------- MODULE Spec2Model ----------------------------
(***************************************************************************)
(* Model of finsight/plotgraph.py: the text-pattern time-series extractor, *)
(* of finsight/model.py: the conversation history and the LLM call, and of *)
(* finsight/web.py with finsight/utils/logger.py: the queries of the web   *)
(* UI.                                                                     *)
(*                                                                         *)
(* A text is a sequence of one-character strings.  The regular expressions *)
(* of the source are translated one by one into matching operators over    *)
(* such sequences (positions are 1-based; an "end" is the position after   *)
(* the last matched character).                                            *)
(***************************************************************************)
EXTENDS Integers, Sequences, FiniteSets, TLC

(***************************************************************************)
(* Bounds of the model.                                                    *)
(***************************************************************************)
\* a text is the concatenation of at most MaxChunks chunks of Lexicon
MaxChunks == 3
\* a raw time token is the concatenation of at most MaxTokChunks chunks of TokLexicon
MaxTokChunks == 3
\* a series given to plot_ascii has at most MaxPoints points
MaxPoints == 3
\* a day report is the concatenation of at most MaxDayEntries day entries
MaxDayEntries == 3
\* a conversation history the operations are applied to holds at most
\* MaxMessages messages; one that call_llm is called on again and again, at
\* most MaxCallMessages
MaxMessages == 5
MaxCallMessages == 9
\* an AIMessage carries at most MaxToolCalls tool calls
MaxToolCalls == 1
\* call_llm is given a max_retries of at most MaxRetries
MaxRetries == 2
\* the server receives at most MaxQueries queries, of at most MaxSessions sessions
MaxQueries == 2
MaxSessions == 2
\* a run of the agent logs at most MaxLogs messages
MaxLogs == 1

(***************************************************************************)
(* Characters and the character classes of Python's re module.             *)
(***************************************************************************)
DigitSeq == <<"0","1","2","3","4","5","6","7","8","9">>
UpperSeq == <<"A","B","C","D","E","F","G","H","I","J","K","L","M",
              "N","O","P","Q","R","S","T","U","V","W","X","Y","Z">>
LowerSeq == <<"a","b","c","d","e","f","g","h","i","j","k","l","m",
              "n","o","p","q","r","s","t","u","v","w","x","y","z">>
\* the characters of the model in code point order
CodeOrder == <<"\n", " ", ",", "-", ".", "/">> \o DigitSeq \o <<":">>
             \o UpperSeq \o <<"_">> \o LowerSeq

Range(s) == { s[i] : i \in 1..Len(s) }
Digits == Range(DigitSeq)
Letters == Range(UpperSeq) \cup Range(LowerSeq)
WordChars == Digits \cup Letters \cup {"_"}
SpaceChars == {" ", "\n"}

\* str comparison is by code point
Ord == [ c \in Range(CodeOrder) |-> CHOOSE i \in 1..Len(CodeOrder) : CodeOrder[i] = c ]
\* re.IGNORECASE folds case before comparing
LowerOf == [ c \in Range(CodeOrder) |->
               IF c \in Range(UpperSeq)
               THEN LowerSeq[CHOOSE i \in 1..26 : UpperSeq[i] = c]
               ELSE c ]
\* int() of one decimal digit
DigitVal == [ c \in Digits |-> (CHOOSE i \in 1..10 : DigitSeq[i] = c) - 1 ]

IsDigit(c) == c \in Digits
IsWord(c) == c \in WordChars
IsSpace(c) == c \in SpaceChars

\* t[i] exists and is a digit / equals c / equals c ignoring case
DigitAt(t, i) == i >= 1 /\ i <= Len(t) /\ IsDigit(t[i])
CharAt(t, i, c) == i >= 1 /\ i <= Len(t) /\ t[i] = c
CharAtI(t, i, c) == i >= 1 /\ i <= Len(t) /\ LowerOf[t[i]] = c
\* \d{k} at position i
DigitsAt(t, i, k) == \A d \in 0..(k-1) : DigitAt(t, i + d)
WordAt(t, i) == i >= 1 /\ i <= Len(t) /\ IsWord(t[i])
\* \b at the gap before position i
Boundary(t, i) == WordAt(t, i - 1) # WordAt(t, i)
\* the position after the maximal run of characters of class S starting at i
RECURSIVE RunEnd(_, _, _)
RunEnd(t, i, S) == IF i <= Len(t) /\ t[i] \in S THEN RunEnd(t, i + 1, S) ELSE i
\* the literal w matches at position i, ignoring case
LiteralAtI(t, i, w) == /\ i + Len(w) - 1 <= Len(t)
                       /\ \A d \in 1..Len(w) : LowerOf[t[i + d - 1]] = w[d]
Slice(t, i, e) == SubSeq(t, i, e - 1)

(***************************************************************************)
(* detect_time_pattern                                                     *)
(***************************************************************************)
\* re.search(r'\bQ\d\s+\d{4}\b', text, re.IGNORECASE)
QuarterAt(t, i) ==
    /\ CharAtI(t, i, "q")
    /\ Boundary(t, i)
    /\ DigitAt(t, i + 1)
    /\ LET e == RunEnd(t, i + 2, SpaceChars)
       IN  e > i + 2 /\ DigitsAt(t, e, 4) /\ Boundary(t, e + 4)
HasQuarter(t) == \E i \in 1..Len(t) : QuarterAt(t, i)

\* re.search(r'\b\d{4}\b', text)
HasYear(t) ==
    \E i \in 1..Len(t) : DigitsAt(t, i, 4) /\ Boundary(t, i) /\ Boundary(t, i + 4)

\* re.search(r'\b\d{2}:\d{2}\b', text)
HasTwoDigitTime(t) ==
    \E i \in 1..Len(t) : /\ DigitsAt(t, i, 2) /\ CharAt(t, i + 2, ":") /\ DigitsAt(t, i + 3, 2)
                         /\ Boundary(t, i) /\ Boundary(t, i + 5)

\* re.search(r'\b\d{1,2}/\d{1,2}\b', text)
HasDay(t) ==
    \E i \in 1..Len(t) :
        /\ DigitAt(t, i) /\ Boundary(t, i)
        /\ \E a \in {1, 2} : \E b \in {1, 2} :
              /\ DigitsAt(t, i, a) /\ CharAt(t, i + a, "/")
              /\ DigitsAt(t, i + a + 1, b) /\ Boundary(t, i + a + 1 + b)

\* r'\b\d{1,2}:\d{2}\b' at position i: the end of the match, 0 when none
\* (\d{1,2} is greedy: two digits are tried before one)
TimeTokenEnd(t, i) ==
    IF ~(DigitAt(t, i) /\ Boundary(t, i)) THEN 0
    ELSE IF /\ DigitsAt(t, i, 2) /\ CharAt(t, i + 2, ":")
            /\ DigitsAt(t, i + 3, 2) /\ Boundary(t, i + 5) THEN i + 5
    ELSE IF /\ DigitsAt(t, i, 1) /\ CharAt(t, i + 1, ":")
            /\ DigitsAt(t, i + 2, 2) /\ Boundary(t, i + 4) THEN i + 4
    ELSE 0

\* re.findall(r'\b\d{1,2}:\d{2}\b', text): the non-overlapping matches, left to right
RECURSIVE FindTimeTokens(_, _)
FindTimeTokens(t, i) ==
    IF i > Len(t) THEN << >>
    ELSE LET e == TimeTokenEnd(t, i)
         IN  IF e = 0 THEN FindTimeTokens(t, i + 1)
             ELSE << Slice(t, i, e) >> \o FindTimeTokens(t, e)

\* m.endswith(':00')
EndsWith00(m) == /\ Len(m) >= 3
                 /\ m[Len(m) - 2] = ":" /\ m[Len(m) - 1] = "0" /\ m[Len(m)] = "0"
\* sum(1 for m in matches if m.endswith(':00'))
HourMatches(ms) == Cardinality({ k \in 1..Len(ms) : EndsWith00(ms[k]) })
Max(a, b) == IF a >= b THEN a ELSE b

\* hour_matches >= max(1, len(matches) // 2)
HourThreshold(z, n) == z >= Max(1, n \div 2)

\* the classifier with the year check ahead of the quarter check
detect_time_pattern_YearFirst(t) ==
    IF HasYear(t) /\ ~HasTwoDigitTime(t) THEN [fmt |-> "%Y", interval |-> "year"]
    ELSE IF HasQuarter(t) THEN [fmt |-> "%Y-Q", interval |-> "quarter"]
    ELSE IF HasDay(t) THEN [fmt |-> "%m/%d", interval |-> "day"]
    ELSE [fmt |-> "%H:%M", interval |-> "minute"]

detect_time_pattern_HourDefault(t) ==
    IF HasQuarter(t) THEN [fmt |-> "%Y-Q", interval |-> "quarter"]
    ELSE IF HasYear(t) /\ ~HasTwoDigitTime(t) THEN [fmt |-> "%Y", interval |-> "year"]
    ELSE IF HasDay(t) THEN [fmt |-> "%m/%d", interval |-> "day"]
    ELSE IF Len(FindTimeTokens(t, 1)) > 0
              /\ ~HourThreshold(HourMatches(FindTimeTokens(t, 1)), Len(FindTimeTokens(t, 1)))
    THEN [fmt |-> "%H:%M", interval |-> "minute"]
    ELSE [fmt |-> "%H:%M", interval |-> "hour"]

detect_time_pattern(t) ==
    IF HasQuarter(t) THEN [fmt |-> "%Y-Q", interval |-> "quarter"]
    ELSE IF HasYear(t) /\ ~HasTwoDigitTime(t) THEN [fmt |-> "%Y", interval |-> "year"]
    ELSE IF HasDay(t) THEN [fmt |-> "%m/%d", interval |-> "day"]
    ELSE LET matches == FindTimeTokens(t, 1)
         IN  IF Len(matches) > 0
             THEN IF HourThreshold(HourMatches(matches), Len(matches))
                  THEN [fmt |-> "%H:%M", interval |-> "hour"]
                  ELSE [fmt |-> "%H:%M", interval |-> "minute"]
             ELSE [fmt |-> "%H:%M", interval |-> "minute"]


(***************************************************************************)
(* parse_time_value                                                        *)
(***************************************************************************)
\* a returned str; the None a function returns without a return statement;
\* an exception leaving the function
Str(s) == [kind |-> "str", s |-> s]
NoneResult == [kind |-> "none", s |-> << >>]
Raised == [kind |-> "raised", s |-> << >>]

\* str.strip()
RECURSIVE LStrip(_)
LStrip(s) == IF Len(s) > 0 /\ IsSpace(s[1]) THEN LStrip(Tail(s)) ELSE s
RECURSIVE RStrip(_)
RStrip(s) == IF Len(s) > 0 /\ IsSpace(s[Len(s)]) THEN RStrip(SubSeq(s, 1, Len(s) - 1)) ELSE s
Strip(s) == RStrip(LStrip(s))

\* int() of a run of decimal digits
RECURSIVE IntOf(_)
IntOf(ds) == IF Len(ds) = 0 THEN 0
             ELSE 10 * IntOf(SubSeq(ds, 1, Len(ds) - 1)) + DigitVal[ds[Len(ds)]]
\* str() of a natural number
RECURSIVE StrOfNat(_)
StrOfNat(n) == IF n < 10 THEN << DigitSeq[n + 1] >>
               ELSE StrOfNat(n \div 10) \o << DigitSeq[(n % 10) + 1] >>
\* f"{n:02d}"
Fmt02d(n) == IF n < 10 THEN << "0" >> \o StrOfNat(n) ELSE StrOfNat(n)

\* the leftmost of the positions S, 0 when there is none
FirstPos(S) == IF S = {} THEN 0 ELSE CHOOSE i \in S : \A k \in S : i <= k

\* fmt == '%Y-Q'
ParseQuarter(ts) ==
    LET QAt(i) == CharAtI(ts, i, "q") /\ DigitAt(ts, i + 1)     \* re.search(r'Q(\d)', ..., re.IGNORECASE)
        YAt(i) == DigitsAt(ts, i, 4)                            \* re.search(r'(\d{4})', ...)
        q == FirstPos({ i \in 1..Len(ts) : QAt(i) })
        y == FirstPos({ i \in 1..Len(ts) : YAt(i) })
    IN  IF q # 0 /\ y # 0
        THEN Str(Slice(ts, y, y + 4) \o << "-", "Q", ts[q + 1] >>)
        ELSE Str(Strip(ts))

\* fmt == '%H:%M': re.match(r'(\d{1,2}):(\d{2})', time_str)
ParseHourMinute(ts) ==
    LET a == IF DigitsAt(ts, 1, 2) /\ CharAt(ts, 3, ":") /\ DigitsAt(ts, 4, 2) THEN 2
             ELSE IF DigitsAt(ts, 1, 1) /\ CharAt(ts, 2, ":") /\ DigitsAt(ts, 3, 2) THEN 1
             ELSE 0
    IN  IF a # 0
        THEN LET hh == IntOf(Slice(ts, 1, a + 1))
                 mm == IntOf(Slice(ts, a + 2, a + 4))
             IN  Str(Fmt02d(hh) \o << ":" >> \o Fmt02d(mm))
        ELSE Str(Strip(ts))

\* what the '%m/%d' branch does when its re.match fails: it has no return of
\* its own, control falls past "if fmt == '%Y'" to the final return
DayNoMatch_ReturnsNone(ts) == NoneResult
DayNoMatch(ts) == Str(Strip(ts))

\* fmt == '%m/%d': re.match(r'(\d{1,2})/(\d{1,2})', time_str)
ParseDay(ts) ==
    LET a == IF DigitsAt(ts, 1, 2) /\ CharAt(ts, 3, "/") /\ DigitAt(ts, 4) THEN 2
             ELSE IF DigitsAt(ts, 1, 1) /\ CharAt(ts, 2, "/") /\ DigitAt(ts, 3) THEN 1
             ELSE 0
        b == IF DigitsAt(ts, a + 2, 2) THEN 2 ELSE 1
    IN  IF a # 0
        THEN LET mm == IntOf(Slice(ts, 1, a + 1))
                 dd == IntOf(Slice(ts, a + 2, a + 2 + b))
             IN  Str(Fmt02d(mm) \o << "/" >> \o Fmt02d(dd))
        ELSE DayNoMatch(ts)

\* fmt == '%Y': re.search(r'(\d{4})', time_str)
ParseYear(ts) ==
    LET YAt(i) == DigitsAt(ts, i, 4)
        y == FirstPos({ i \in 1..Len(ts) : YAt(i) })
    IN  IF y # 0 THEN Str(Slice(ts, y, y + 4)) ELSE Str(Strip(ts))

\* the body of the try block
ParseBody(ts, fmt) ==
    CASE fmt = "%Y-Q"  -> ParseQuarter(ts)
      [] fmt = "%H:%M" -> ParseHourMinute(ts)
      [] fmt = "%m/%d" -> ParseDay(ts)
      [] fmt = "%Y"    -> ParseYear(ts)
      [] OTHER         -> Str(Strip(ts))

\* try: ... except Exception: return time_str.strip()
parse_time_value(ts, fmt) ==
    LET r == ParseBody(ts, fmt)
    IN  IF r.kind = "raised" THEN Str(Strip(ts)) ELSE r

Formats == {"%Y-Q", "%H:%M", "%m/%d", "%Y"}

(***************************************************************************)
(* extract_numeric_data (the second definition, which replaces the first)  *)
(***************************************************************************)
Close == <<"c","l","o","s","e">>
Price == <<"p","r","i","c","e">>
Value == <<"v","a","l","u","e">>
Illio == <<"i","l","l","i","o">>
\* [\s:] and [\d,.]
SepChars == SpaceChars \cup {":"}
NumChars == Digits \cup {",", "."}

NoMatch == [ok |-> FALSE, tok |-> << >>, val |-> << >>, end |-> 0]

\* (?:Close|Price|Value)
MarkerAt(t, j) == LiteralAtI(t, j, Close) \/ LiteralAtI(t, j, Price) \/ LiteralAtI(t, j, Value)

\* [Bb]?illion? at position v (the 'year' pattern only): the end of the match, 0 when none
SuffixEnd(t, v) ==
    LET b == IF CharAtI(t, v, "b") THEN v + 1 ELSE v
    IN  IF LiteralAtI(t, b, Illio)
        THEN IF CharAtI(t, b + 5, "n") THEN b + 6 ELSE b + 5
        ELSE 0

\* (?:Close|Price|Value)[\s:]+([\d,.]+) at position j, followed for 'year' by
\* [Bb]?illion?; both runs are greedy, and as the classes [\s:], [\d,.] and the
\* letters are disjoint no shorter run can match where the longest does not
TailAt(interval, t, j) ==
    IF ~MarkerAt(t, j) THEN NoMatch
    ELSE LET s == RunEnd(t, j + 5, SepChars)
             v == RunEnd(t, s, NumChars)
         IN  IF s = j + 5 \/ v = s THEN NoMatch
             ELSE IF interval = "year"
                  THEN IF SuffixEnd(t, v) = 0 THEN NoMatch
                       ELSE [ok |-> TRUE, tok |-> << >>, val |-> Slice(t, s, v),
                             end |-> SuffixEnd(t, v)]
                  ELSE [ok |-> TRUE, tok |-> << >>, val |-> Slice(t, s, v), end |-> v]

\* .*? followed by the tail: the tail at the first position j >= e that matches,
\* '.' matching every character but a newline
RECURSIVE LazyTail(_, _, _)
LazyTail(interval, t, j) ==
    IF j > Len(t) THEN NoMatch
    ELSE LET m == TailAt(interval, t, j)
         IN  IF m.ok THEN m
             ELSE IF t[j] = "\n" THEN NoMatch
             ELSE LazyTail(interval, t, j + 1)

\* the ends of the first group of patterns[interval] at position i, in the order
\* the matcher tries them (greedy: the longer alternative first)
GroupEnds(interval, t, i) ==
    LET If(c, e) == IF c THEN << e >> ELSE << >>
    IN  CASE interval \in {"minute", "hour"} ->       \* (\d{1,2}:\d{2})
                 If(DigitsAt(t, i, 2) /\ CharAt(t, i + 2, ":") /\ DigitsAt(t, i + 3, 2), i + 5)
              \o If(DigitsAt(t, i, 1) /\ CharAt(t, i + 1, ":") /\ DigitsAt(t, i + 2, 2), i + 4)
          [] interval = "day" ->                      \* (\d{1,2}/\d{1,2})
                 If(DigitsAt(t, i, 2) /\ CharAt(t, i + 2, "/") /\ DigitsAt(t, i + 3, 2), i + 5)
              \o If(DigitsAt(t, i, 2) /\ CharAt(t, i + 2, "/") /\ DigitsAt(t, i + 3, 1), i + 4)
              \o If(DigitsAt(t, i, 1) /\ CharAt(t, i + 1, "/") /\ DigitsAt(t, i + 2, 2), i + 4)
              \o If(DigitsAt(t, i, 1) /\ CharAt(t, i + 1, "/") /\ DigitsAt(t, i + 2, 1), i + 3)
          [] interval = "quarter" ->                  \* (Q\d\s+\d{4})
                 LET e == RunEnd(t, i + 2, SpaceChars)
                 IN  If(/\ CharAtI(t, i, "q") /\ DigitAt(t, i + 1)
                        /\ e > i + 2 /\ DigitsAt(t, e, 4), e + 4)
          [] interval = "year" ->                     \* (\d{4})
                 If(DigitsAt(t, i, 4), i + 4)
          [] OTHER -> << >>

\* patterns[interval] at position i: the first alternative of the group whose
\* continuation matches
RECURSIVE TryEnds(_, _, _, _)
TryEnds(interval, t, i, ends) ==
    IF Len(ends) = 0 THEN NoMatch
    ELSE LET m == LazyTail(interval, t, ends[1])
         IN  IF m.ok THEN [m EXCEPT !.tok = Slice(t, i, ends[1])]
             ELSE TryEnds(interval, t, i, Tail(ends))
MatchAt(interval, t, i) == TryEnds(interval, t, i, GroupEnds(interval, t, i))

\* re.findall(pattern, text, re.IGNORECASE): the (time_str, value) pairs of the
\* non-overlapping matches, left to right
RECURSIVE FindAll(_, _, _)
FindAll(interval, t, i) ==
    IF i > Len(t) THEN << >>
    ELSE LET m == MatchAt(interval, t, i)
         IN  IF m.ok THEN << [tok |-> m.tok, val |-> m.val] >> \o FindAll(interval, t, m.end)
             ELSE FindAll(interval, t, i + 1)

\* value.replace(',', '')
RemoveCommas_Keep(v) == v
RECURSIVE RemoveCommas(_)
RemoveCommas(v) == IF Len(v) = 0 THEN << >>
                   ELSE IF v[1] = "," THEN RemoveCommas(Tail(v))
                   ELSE << v[1] >> \o RemoveCommas(Tail(v))
\* a float is kept as its decimal expansion: the digits of the whole part
\* without leading zeros and of the fraction without trailing zeros, so that
\* two floats are equal exactly when their records are
RECURSIVE DropLeadingZeros(_)
DropLeadingZeros(ds) == IF Len(ds) > 0 /\ ds[1] = "0" THEN DropLeadingZeros(Tail(ds)) ELSE ds
RECURSIVE DropTrailingZeros(_)
DropTrailingZeros(ds) == IF Len(ds) > 0 /\ ds[Len(ds)] = "0"
                         THEN DropTrailingZeros(SubSeq(ds, 1, Len(ds) - 1)) ELSE ds
Float(whole, frac) == [w |-> DropLeadingZeros(whole), f |-> DropTrailingZeros(frac)]
\* float(s) for s over [\d.]: ValueError unless s holds a digit and at most one '.'
FloatOf(s) ==
    LET IsDot(i) == s[i] = "."
        dots == { i \in 1..Len(s) : IsDot(i) }
        d == FirstPos(dots)
    IN  IF Cardinality(dots) > 1 \/ Len(s) = Cardinality(dots)
        THEN [ok |-> FALSE, val |-> Float(<< >>, << >>)]
        ELSE IF d = 0 THEN [ok |-> TRUE, val |-> Float(s, << >>)]
        ELSE [ok |-> TRUE, val |-> Float(Slice(s, 1, d), Slice(s, d + 1, Len(s) + 1))]

\* data[key] = v on an insertion-ordered dict, kept as a sequence of items
Put_KeepFirst(data, key, v) ==
    IF \E i \in 1..Len(data) : data[i].k = key THEN data
    ELSE Append(data, [k |-> key, v |-> v])
Put(data, key, v) ==
    IF \E i \in 1..Len(data) : data[i].k = key
    THEN [ i \in 1..Len(data) |-> IF data[i].k = key THEN [k |-> key, v |-> v] ELSE data[i] ]
    ELSE Append(data, [k |-> key, v |-> v])

\* except ValueError: continue
OnValueError_Raise(acc, key) == [acc EXCEPT !.raised = TRUE]
OnValueError_Reset(acc, key) == [acc EXCEPT !.data = << >>]
OnValueError(acc, key) == acc

\* one iteration of "for time_str, value in matches"
LoopBody(acc, m, fmt) ==
    IF acc.raised THEN acc
    ELSE LET key == parse_time_value(m.tok, fmt).s
             f == FloatOf(RemoveCommas(m.val))
         IN  IF f.ok THEN [acc EXCEPT !.data = Put(acc.data, key, f.val)]
             ELSE OnValueError(acc, key)
RECURSIVE Loop(_, _, _)
Loop(acc, ms, fmt) == IF Len(ms) = 0 THEN acc
                      ELSE Loop(LoopBody(acc, ms[1], fmt), Tail(ms), fmt)

\* a < b for two str
RECURSIVE StrLess(_, _)
StrLess(a, b) ==
    IF Len(b) = 0 THEN FALSE
    ELSE IF Len(a) = 0 THEN TRUE
    ELSE IF a[1] = b[1] THEN StrLess(Tail(a), Tail(b))
    ELSE Ord[a[1]] < Ord[b[1]]
\* sorted(data.items()): the keys of a dict are distinct, so the items are
\* ordered by key
RECURSIVE Insert(_, _)
Insert(sorted, item) ==
    IF Len(sorted) = 0 THEN << item >>
    ELSE IF StrLess(item.k, sorted[1].k) THEN << item >> \o sorted
    ELSE << sorted[1] >> \o Insert(Tail(sorted), item)
RECURSIVE SortedItems(_)
SortedItems(data) == IF Len(data) = 0 THEN << >>
                     ELSE Insert(SortedItems(SubSeq(data, 1, Len(data) - 1)), data[Len(data)])
DictOfSorted_Unsorted(data) == data
DictOfSorted(data) == SortedItems(data)

\* labels.get(interval, ('Time', 'Value'))
Labels(interval) ==
    CASE interval = "minute"  -> << "Time (Minutes)", "Price ($)" >>
      [] interval = "hour"    -> << "Time (Hours)", "Price ($)" >>
      [] interval = "day"     -> << "Date", "Price ($)" >>
      [] interval = "quarter" -> << "Quarter", "Value ($B)" >>
      [] interval = "year"    -> << "Year", "Value ($B)" >>
      [] OTHER                -> << "Time", "Value" >>
\* title_map.get(interval, 'Price Movement')
TitleMap_NoQuarter(interval) ==
    CASE interval = "minute"  -> "Minutely Price Movement"
      [] interval = "hour"    -> "Hourly Price Movement"
      [] interval = "day"     -> "Daily Price Movement"
      [] interval = "year"    -> "Yearly Price Movement"
      [] OTHER                -> "Price Movement"
TitleMap(interval) ==
    CASE interval = "minute"  -> "Minutely Price Movement"
      [] interval = "hour"    -> "Hourly Price Movement"
      [] interval = "day"     -> "Daily Price Movement"
      [] interval = "quarter" -> "Quarterly Price Movement"
      [] interval = "year"    -> "Yearly Price Movement"
      [] OTHER                -> "Price Movement"

\* the results of a call: None, a PlottableData, or an exception
NoCall == [status |-> "not_called", title |-> "", x_label |-> "", y_label |-> "",
           data |-> << >>, interval |-> ""]
ReturnNone == [NoCall EXCEPT !.status = "none"]
Raise == [NoCall EXCEPT !.status = "raised"]
PlottableData(title, x_label, y_label, data, interval) ==
    [status |-> "data", title |-> title, x_label |-> x_label, y_label |-> y_label,
     data |-> data, interval |-> interval]

\* "if not data: return None"
EmptyData_ReturnsRecord(data) == FALSE
EmptyData(data) == Len(data) = 0

\* the call's result from the matches found
ExtractFrom(c, matches) ==
    IF Len(matches) = 0 THEN ReturnNone
    ELSE LET acc == Loop([raised |-> FALSE, data |-> << >>], matches, c.fmt)
         IN  IF acc.raised THEN Raise
             ELSE IF EmptyData(acc.data) THEN ReturnNone
             ELSE PlottableData(TitleMap(c.interval), Labels(c.interval)[1],
                                Labels(c.interval)[2], DictOfSorted(acc.data), c.interval)

extract_numeric_data(t) ==
    LET c == detect_time_pattern(t)
    IN  ExtractFrom(c, FindAll(c.interval, t, 1))

(***************************************************************************)
(* plot_ascii.                                                             *)
(*                                                                         *)
(* The returned text is a sequence of characters like the input texts.     *)
(* The box-drawing glyphs are single characters, written here by their     *)
(* code points; the title and the axis labels of a PlottableData are kept  *)
(* as whole strings and appear in the text as one element each.            *)
(***************************************************************************)
VLine  == "U+2502"      \* the vertical axis
MidDot == "U+00B7"      \* a grid dot
HLine  == "U+2500"      \* the horizontal axis, and a flat segment
Corner == "U+2514"      \* the origin
Tick   == "U+2524"      \* the axis of a labelled row
Point  == "U+25CF"      \* a data point
Up     == "U+2571"      \* a rising segment
Down   == "U+2572"      \* a falling segment

\* float('inf'): what float() gives for a digit string beyond the range of a
\* double (the tokens of Texts are far shorter)
Inf == [w |-> <<"i", "n", "f">>, f |-> << >>]
IsInf(v) == v = Inf
\* a finite value in hundredths; the values plotted have at most two decimals
Hundredths(v) ==
    IntOf(v.w) * 100 + (IF Len(v.f) = 0 THEN 0
                        ELSE IF Len(v.f) = 1 THEN 10 * IntOf(v.f)
                        ELSE IntOf(v.f))
Abs(a) == IF a < 0 THEN -a ELSE a
RECURSIVE Pow10(_)
Pow10(p) == IF p = 0 THEN 1 ELSE 10 * Pow10(p - 1)
\* max(values), min(values) in hundredths
MaxOf(cs) == CHOOSE m \in Range(cs) : \A c \in Range(cs) : c <= m
MinOf(cs) == CHOOSE m \in Range(cs) : \A c \in Range(cs) : m <= c

\* the results of a call: the returned text, or an exception; 'writes' lists
\* the canvas cells the plotting loop assigned, in the order of the
\* assignments
NoPlot == [status |-> "not_called", error |-> "", out |-> << >>, writes |-> << >>]
PlotReturn(out, writes) == [status |-> "returned", error |-> "", out |-> out, writes |-> writes]
PlotRaise(error) == [status |-> "raised", error |-> error, out |-> << >>, writes |-> << >>]
NoDataMessage == "No plottable data found."

\* the scale of a call: the canvas, the number of points, min(values) and
\* max(values) - min(values) in hundredths.  With r the range, padding is
\* r/10, min_val = min - r/10, max_val = max + r/10 and max_val - min_val
\* is 12r/10.
Scale(data, width, height) ==
    LET cs == [i \in 1..Len(data.data) |-> Hundredths(data.data[i].v)]
    IN  [width |-> width, height |-> height, n |-> Len(data.data),
         min |-> MinOf(cs), r |-> MaxOf(cs) - MinOf(cs)]

\* the blank canvas and the grid drawn on it
Blank(g) == [i \in 0..(g.height - 1) |-> [j \in 0..(g.width - 1) |-> " "]]
\* for i in range(height): the axis in column 0, a dotted line every 4th row
GridRows(g, canvas) ==
    [i \in 0..(g.height - 1) |-> [j \in 0..(g.width - 1) |->
        IF j = 0 THEN VLine
        ELSE IF i % 4 = 0 /\ canvas[i][j] = " " THEN MidDot
        ELSE canvas[i][j]]]
\* for i in range(width): the axis in the last row, a dotted line every 10th
\* column
GridCols(g, canvas) ==
    [i \in 0..(g.height - 1) |-> [j \in 0..(g.width - 1) |->
        IF i = g.height - 1 THEN HLine
        ELSE IF j % 10 = 0 /\ canvas[i][j] = " " THEN MidDot
        ELSE canvas[i][j]]]
\* canvas[-1][0] = the corner
GridCorner(g, canvas) == [canvas EXCEPT ![g.height - 1][0] = Corner]
Grid(g) == GridCorner(g, GridCols(g, GridRows(g, Blank(g))))

\* x = int(1 + i * x_scale), x_scale = (width - 2) / (n - 1), or 1 for one point
ColumnOf(g, i) ==
    IF g.n > 1 THEN 1 + (i * (g.width - 2)) \div (g.n - 1) ELSE 1 + i
\* y = int(height - 1 - (value - min_val) * scale), scale = (height - 1) /
\* (max_val - min_val), or 1 when max_val = min_val:
\* (value - min_val) * scale = (10 (value - min) + r) (height - 1) / 12r
RowOf_Unflipped(g, c) ==
    IF g.r = 0 THEN g.height - 1 - (c - g.min) \div 100
    ELSE ((g.height - 1) * (10 * (c - g.min) + g.r)) \div (12 * g.r)
RowOf(g, c) ==
    IF g.r = 0 THEN g.height - 1 - (c - g.min) \div 100
    ELSE ((g.height - 1) * (11 * g.r - 10 * (c - g.min))) \div (12 * g.r)

\* a list index: negative indexes count from the end, others are IndexErrors
Index(i, n) == IF i < 0 THEN i + n ELSE i
Valid(i, n) == Index(i, n) \in 0..(n - 1)
Store(g, canvas, y, x, glyph) ==
    [canvas EXCEPT ![Index(y, g.height)][Index(x, g.width)] = glyph]
Write(kind, i, y, x, glyph) == [kind |-> kind, i |-> i, y |-> y, x |-> x, glyph |-> glyph]

\* the glyph of the segment that ends in row y and started in row prev_y
TrendGlyph_Mirrored(prev_y, y) == IF y < prev_y THEN Down ELSE IF y > prev_y THEN Up ELSE HLine
TrendGlyph(prev_y, y) == IF y < prev_y THEN Up ELSE IF y > prev_y THEN Down ELSE HLine
\* py = int(prev_y + (y - prev_y) * (px - prev_x) / (x - prev_x))
SegmentRow(prev_x, prev_y, x, y, px) ==
    LET num == prev_y * (x - prev_x) + (y - prev_y) * (px - prev_x)
    IN  IF num >= 0 THEN num \div (x - prev_x) ELSE -((-num) \div (x - prev_x))
\* for px in range(prev_x + 1, x)
SegmentColumns(prev_x, x) == (prev_x + 1)..(x - 1)
RECURSIVE DrawSegment(_, _, _, _, _, _)
DrawSegment(g, st, i, x, y, columns) ==
    IF st.raised \/ columns = {} THEN st
    ELSE LET px == CHOOSE c \in columns : \A d \in columns : c <= d
             py == SegmentRow(st.prev_x, st.prev_y, x, y, px)
             glyph == TrendGlyph(st.prev_y, y)
         IN  IF ~(Valid(py, g.height) /\ Valid(px, g.width))
             THEN [st EXCEPT !.raised = TRUE]
             ELSE DrawSegment(g, [st EXCEPT !.canvas = Store(g, st.canvas, py, px, glyph),
                                            !.writes = Append(st.writes, Write("segment", i, py, px, glyph))],
                              i, x, y, columns \ {px})
\* for i, (label, value) in enumerate(sorted_items)
RECURSIVE DrawPoints(_, _, _, _)
DrawPoints(g, st, items, i) ==
    IF st.raised \/ i >= Len(items) THEN st
    ELSE LET x == ColumnOf(g, i)
             y == RowOf(g, Hundredths(items[i + 1].v))
         IN  IF ~(Valid(y, g.height) /\ Valid(x, g.width))
             THEN [st EXCEPT !.raised = TRUE]
             ELSE LET pt == [st EXCEPT !.canvas = Store(g, st.canvas, y, x, Point),
                                       !.writes = Append(st.writes, Write("point", i, y, x, Point))]
                      ln == IF st.has_prev
                            THEN DrawSegment(g, pt, i, x, y, SegmentColumns(st.prev_x, x))
                            ELSE pt
                  IN  DrawPoints(g, [ln EXCEPT !.has_prev = TRUE, !.prev_x = x, !.prev_y = y],
                                 items, i + 1)
\* the canvas after the plotting loop
Plotted(g, data) ==
    DrawPoints(g, [canvas |-> Grid(g), writes |-> << >>, raised |-> FALSE,
                   has_prev |-> FALSE, prev_x |-> 0, prev_y |-> 0],
               SortedItems(data.data), 0)

\* ' ' * k (empty for k <= 0) and f"{s:>n}"
Spaces(k) == [i \in 1..k |-> " "]
RJust(s, n) == Spaces(n - Len(s)) \o s
\* the digits of q, zero-padded on the left to p digits
ZeroPad(q, p) == LET s == StrOfNat(q) IN [i \in 1..(p - Len(s)) |-> "0"] \o s
\* num/den rounded to the nearest integer, ties to the even one (den > 0, num >= 0)
RoundHalfEven(num, den) ==
    LET q == num \div den
        r == num % den
    IN  IF 2 * r > den \/ (2 * r = den /\ q % 2 = 1) THEN q + 1 ELSE q
\* f"{v:.{p}f}" for v = num / (den * 10^p)
FormatFixed(num, den, p) ==
    LET q == RoundHalfEven(Abs(num), den)
    IN  (IF num < 0 THEN << "-" >> ELSE << >>)
        \o StrOfNat(q \div Pow10(p)) \o << "." >> \o ZeroPad(q % Pow10(p), p)
\* precision = 2 if "Price" in data.y_label else 1, over the labels of Labels
Precision(y_label) == IF y_label \in {"Price ($)"} THEN 2 ELSE 1
\* y_values after the reverse(): the value of row i is
\* min_val + (max_val - min_val) * (height - 1 - i) / (height - 1),
\* here as a fraction with the denominator 1000 (height - 1)
RowValueNum(g, i) ==
    (10 * g.min - g.r) * (g.height - 1) + 12 * g.r * (g.height - 1 - i)
RowLabel(g, i, p) == FormatFixed(RowValueNum(g, i), Pow10(3 - p) * (g.height - 1), p)
\* "".join(row[1:])
RowTail(g, row) == [j \in 1..(g.width - 1) |-> row[j]]
\* the line of canvas row i
LabelGutter == 8
TickRowPrefix(label) == RJust(label, LabelGutter) \o << " ", Tick >>
RowLine(g, canvas, i, p) ==
    IF i % 4 = 0 THEN TickRowPrefix(RowLabel(g, i, p)) \o RowTail(g, canvas[i])
    ELSE Spaces(LabelGutter) \o << VLine >> \o RowTail(g, canvas[i])

\* label[-5:]
Last5(label) == IF Len(label) <= 5 THEN label ELSE SubSeq(label, Len(label) - 4, Len(label))
\* the x-axis label of a key
XLabel(interval, label) ==
    IF interval = "hour" THEN RJust(label, 5)
    ELSE IF interval = "minute" THEN Last5(label)
    ELSE RJust(label, 5)
\* x_axis
XAxis(g) == Spaces(LabelGutter) \o << Corner >> \o [j \in 1..(g.width - 1) |-> HLine]
\* " ".join(parts)
RECURSIVE JoinWith(_, _)
JoinWith(sep, parts) ==
    IF Len(parts) = 0 THEN << >>
    ELSE IF Len(parts) = 1 THEN parts[1]
    ELSE parts[1] \o sep \o JoinWith(sep, Tail(parts))
\* ' ' * (pos - len(x_axis) + 1) + label
LabelLead(g, pos) == Spaces(pos - Len(XAxis(g)) + 1)
\* x_labels_line: the labels of the points, each after its lead, joined by
\* spaces
RECURSIVE XLabelParts(_, _, _, _)
XLabelParts(g, items, interval, i) ==
    IF i >= Len(items) THEN << >>
    ELSE << LabelLead(g, ColumnOf(g, i)) \o XLabel(interval, items[i + 1].k) >>
         \o XLabelParts(g, items, interval, i + 1)
XLabelsLine(g, items, interval) ==
    Spaces(LabelGutter) \o << " " >> \o JoinWith(<< " " >>, XLabelParts(g, items, interval, 0))

\* result: the title, the rows of the canvas, the x-axis, its labels and the
\* caption
ResultLines(g, data, canvas) ==
    << << "\n", data.title, "\n" >> >>
    \o [i \in 1..g.height |-> RowLine(g, canvas, i - 1, Precision(data.y_label))]
    \o << XAxis(g), XLabelsLine(g, SortedItems(data.data), data.interval) >>
    \o << << "\n", data.x_label, " ", "v", "s", " ", data.y_label, "\n" >> >>

plot_ascii(data, width, height) ==
    IF Len(data.data) = 0 THEN PlotReturn(<< NoDataMessage >>, << >>)
    ELSE IF \E i \in 1..Len(data.data) : IsInf(data.data[i].v)
    THEN PlotRaise("ValueError")        \* int() of a NaN row
    ELSE LET g == Scale(data, width, height)
             st == Plotted(g, data)
         IN  IF st.raised THEN PlotRaise("IndexError")
             ELSE IF height = 1 THEN PlotRaise("ZeroDivisionError")
             ELSE PlotReturn(JoinWith(<< "\n" >>, ResultLines(g, data, st.canvas)), st.writes)

(***************************************************************************)
(* serialize: the structured serializer of a PlottableData (the mapping    *)
(* handed to the browser chart as the "plot" event's data).                *)
(***************************************************************************)
NoSer == [status |-> "not_called", title |-> "", x_label |-> "", y_label |-> "",
          labels |-> << >>, values |-> << >>, interval |-> ""]
\* the "no data" signal
NoDataSignal == [NoSer EXCEPT !.status = "no_data"]
\* the mapping: title, x_label, y_label, the keys as "labels", the parallel
\* list of "values", and the interval
serialize(data) ==
    IF Len(data.data) = 0 THEN NoDataSignal
    ELSE [status |-> "mapping", title |-> data.title, x_label |-> data.x_label,
          y_label |-> data.y_label,
          labels |-> [i \in 1..Len(data.data) |-> data.data[i].k],
          values |-> [i \in 1..Len(data.data) |-> data.data[i].v],
          interval |-> data.interval]

(***************************************************************************)
(* finsight/model.py: ConversationHistory and call_llm.                    *)
(*                                                                         *)
(* A message is its class, the number of tokens of its content, the ids of *)
(* the tool calls it carries (an AIMessage) and the id of the tool call it *)
(* answers (a ToolMessage).  The language models are the environment: a    *)
(* call of invoke returns a response or raises.                            *)
(***************************************************************************)
NoId == 0
HumanMessage(tokens) ==
    [type |-> "HumanMessage", tokens |-> tokens, tool_calls |-> << >>, tool_call_id |-> NoId]
AIMessage(tokens, tool_calls) ==
    [type |-> "AIMessage", tokens |-> tokens, tool_calls |-> tool_calls, tool_call_id |-> NoId]
ToolMessage(tool_call_id) ==
    [type |-> "ToolMessage", tokens |-> 0, tool_calls |-> << >>, tool_call_id |-> tool_call_id]
SystemMessage(tokens) ==
    [type |-> "SystemMessage", tokens |-> tokens, tool_calls |-> << >>, tool_call_id |-> NoId]

\* self.messages.append(HumanMessage(content=message))
add_user_message(msgs, tokens) == Append(msgs, HumanMessage(tokens))

\* the ToolMessages appended for the tool calls of an AIMessage, in order
ToolMessagesOf(tool_calls) == [i \in 1..Len(tool_calls) |-> ToolMessage(tool_calls[i])]

\* what the isinstance tests make of the argument: a pydantic model and any
\* other object become a new AIMessage of their text, an AIMessage is kept
Normalized(message) ==
    IF message.kind = "AIMessage" THEN AIMessage(message.tokens, message.tool_calls)
    ELSE AIMessage(message.tokens, << >>)

\* add_ai_message: the AIMessage, then one ToolMessage per tool call
add_ai_message(msgs, message) ==
    LET ai_msg == Normalized(message)
    IN  Append(msgs, ai_msg) \o ToolMessagesOf(ai_msg.tool_calls)

\* Python's list slices messages[-k:] and messages[:-k] for k >= 0
\* (k = 0 makes them messages[0:] and messages[:0])
LastOf(msgs, k) ==
    IF k = 0 \/ k >= Len(msgs) THEN msgs ELSE SubSeq(msgs, Len(msgs) - k + 1, Len(msgs))
AllButLastOf(msgs, k) ==
    IF k = 0 \/ k >= Len(msgs) THEN << >> ELSE SubSeq(msgs, 1, Len(msgs) - k)

\* get_recent_messages(limit)
get_recent_messages(msgs, limit) == IF limit # 0 THEN LastOf(msgs, limit) ELSE msgs

\* token_count: the tokens of the lines "<class name>: <content>"; a line
\* has a token for the class name and the tokens of the content
RECURSIVE token_count(_)
token_count(msgs) ==
    IF Len(msgs) = 0 THEN 0 ELSE 1 + msgs[1].tokens + token_count(Tail(msgs))

\* the summarizer is invoked at most 3 times
SummaryRetries == 3
\* the tokens of the summary message
SummaryTokens == 1

\* an outcome of summarizer.invoke: a response with content, a response
\* with empty content, RateLimitError, another exception
InvokeOutcomes == {"content", "empty", "RateLimitError", "Exception"}

\* the for loop over range(retries): script[attempt] is what the attempt's
\* invoke does; the result is summary_text (or None), the number of
\* invocations and the sleeps
RECURSIVE SummarizeLoop(_, _, _, _)
SummarizeLoop(script, attempt, backoff, sleeps) ==
    IF attempt > SummaryRetries
    THEN [summary_text |-> "None", invocations |-> attempt - 1, sleeps |-> sleeps,
          last |-> "RateLimitError"]
    ELSE CASE script[attempt] = "content" ->
                [summary_text |-> "content", invocations |-> attempt, sleeps |-> sleeps,
                 last |-> "content"]
           [] script[attempt] = "empty" ->
                [summary_text |-> "", invocations |-> attempt, sleeps |-> sleeps,
                 last |-> "empty"]
           [] script[attempt] = "RateLimitError" ->
                SummarizeLoop(script, attempt + 1, 2 * backoff, Append(sleeps, backoff))
           [] OTHER ->
                [summary_text |-> "None", invocations |-> attempt, sleeps |-> sleeps,
                 last |-> "Exception"]

\* if summary_text: a summary_text of None or "" is falsy
Truthy(summary_text) == summary_text \notin {"None", ""}

\* what compress_if_needed leaves: the list and how the call went
Compressed(msgs, outcome, loop) ==
    [messages |-> msgs, outcome |-> outcome, invocations |-> loop.invocations, last |-> loop.last]
\* the summarizer was not invoked
NoLoop == [summary_text |-> "None", invocations |-> 0, sleeps |-> << >>, last |-> ""]

\* the final fallback of the outer except: messages[-keep_recent:]
Fallback(msgs, keep_recent) == Compressed(LastOf(msgs, keep_recent), "fallback", NoLoop)

\* a head with a message never joins to a blank text: every line starts
\* with the class name
HeadTextBlank(head) == Len(head) = 0

\* the list once the loop has ended
AfterSummary(tail, loop) ==
    IF Truthy(loop.summary_text)
    THEN Compressed(<< SystemMessage(SummaryTokens) >> \o tail, "summarized", loop)
    ELSE Compressed(tail, "truncated", loop)

\* compress_if_needed(token_threshold, keep_recent) on the list msgs; env
\* says whether the tokenizer and the summarizer's constructor work and
\* what the invocations do
compress_if_needed(msgs, token_threshold, keep_recent, env) ==
    IF ~env.encoding THEN Fallback(msgs, keep_recent)
    ELSE IF token_count(msgs) <= token_threshold THEN Compressed(msgs, "under_threshold", NoLoop)
    ELSE LET head == IF Len(msgs) > keep_recent THEN AllButLastOf(msgs, keep_recent) ELSE << >>
             tail == IF Len(msgs) >= keep_recent THEN LastOf(msgs, keep_recent) ELSE msgs
         IN  IF Len(head) = 0 THEN Compressed(msgs, "no_head", NoLoop)
             ELSE IF HeadTextBlank(head) THEN Compressed(tail, "truncated", NoLoop)
             ELSE IF ~env.summarizer THEN Fallback(msgs, keep_recent)
             ELSE AfterSummary(tail, SummarizeLoop(env.script, 1, 1, << >>))

\* except (APIConnectionError, RateLimitError)
Retryable == {"APIConnectionError", "RateLimitError"}
\* if attempt > max_retries: raise
RetriesExhausted_OneEarly(attempt, max_retries) == attempt >= max_retries
RetriesExhausted(attempt, max_retries) == attempt > max_retries
\* the argument call_llm gives add_ai_message for a response
MessageOf(response) ==
    IF response.kind \in {"BaseModel", "AIMessage"} THEN response
    ELSE [response EXCEPT !.kind = "str"]
\* keep_recent=6 and limit=50 of call_llm
KeepRecentOfCall == 6
LimitOfCall == 50

(***************************************************************************)
(* The inputs: texts and raw time tokens put together from short pieces.   *)
(***************************************************************************)
\* report entries of every granularity (parseable and unparseable values,
\* with and without the suffix of the 'year' pattern) and the short pieces
\* that put letters, digits, spaces and newlines next to them
Lexicon == {
    <<"0","9",":","0","0"," ","C","l","o","s","e",":"," ","1","5","0",".","2","5",","," ">>,   \* 09:00 Close: 150.25,
    <<"0","9",":","0","0"," ","C","l","o","s","e",":"," ","1","5","1",".","0","0",","," ">>,   \* 09:00 Close: 151.00,
    <<"1","0",":","0","0"," ","C","l","o","s","e",":"," ","1","5","2",".","7","5">>,   \* 10:00 Close: 152.75
    <<"9",":","1","5"," ","P","r","i","c","e"," ","1",".","2",".","3"," ">>,   \* 9:15 Price 1.2.3
    <<"2","5",":","3","0"," ","V","a","l","u","e",":"," ","7"," ">>,   \* 25:30 Value: 7
    <<"0","3","/","5"," ","P","r","i","c","e",":"," ","1",",","2","3","4",".","5","0"," ">>,   \* 03/5 Price: 1,234.50
    <<"1","2","/","2","5"," ","p","r","i","c","e"," ","9","9"," ">>,   \* 12/25 price 99
    <<"Q","3"," ","2","0","2","5"," ","V","a","l","u","e",":"," ","1","2",".","5"," ">>,   \* Q3 2025 Value: 12.5
    <<"q","9"," ","2","0","2","4"," ","V","a","l","u","e",":"," ","3",".">>,   \* q9 2024 Value: 3.
    <<"2","0","2","3"," ","V","a","l","u","e",":"," ","1","2",".","5">>,   \* 2023 Value: 12.5
    <<"2","0","2","2"," ","V","a","l","u","e",":"," ","9","B","i","l","l","i","o","n"," ">>,   \* 2022 Value: 9Billion
    <<"9",":","3","0","\n","C","l","o","s","e",":"," ","5"," ">>,   \* 9:30\nClose: 5
    <<"i","l","l","i","o","n">>,   \* illion
    <<"1">>,   \* 1
    <<" ">>   \* a space
}
\* the pieces of the raw tokens given to parse_time_value
TokLexicon == {
    <<"Q","3">>,   \* Q3
    <<" ">>,   \*  
    <<"2","0","2","5">>,   \* 2025
    <<"9">>,   \* 9
    <<"0","9">>,   \* 09
    <<":","0","0">>,   \* :00
    <<"/","5">>,   \* /5
    <<"/">>,   \* /
    <<"x">>,   \* x
    <<"1","2">>   \* 12
}

\* the concatenations of at most n pieces of lex
RECURSIVE Concats(_, _)
Concats(lex, n) ==
    IF n = 0 THEN { << >> }
    ELSE LET shorter == Concats(lex, n - 1)
         IN  shorter \cup { p \o c : p \in shorter, c \in lex }
Texts == Concats(Lexicon, MaxChunks)
Tokens == Concats(TokLexicon, MaxTokChunks)

\* the day reports: texts made only of entries "MM/DD Price: <number> ", the
\* number written with two, four or (with a thousands separator) five
\* characters before the decimal point
DayDates == { <<"1","2","/","2","5">>, <<"1","/","2">> }
DayPrices == { <<"9","9">>, <<"1","5","0","0">>, <<"1",",","2","3","4",".","5","0">> }
DayEntry(date, price) == date \o <<" ","P","r","i","c","e",":"," ">> \o price \o <<" ">>
DayEntries == { <<date, price>> : date \in DayDates, price \in DayPrices }
DayEntrySeqs == UNION { [1..n -> DayEntries] : n \in 1..MaxDayEntries }
RECURSIVE DayText(_)
DayText(es) == IF Len(es) = 0 THEN << >>
               ELSE DayEntry(es[1][1], es[1][2]) \o DayText(Tail(es))
DayTexts == { DayText(es) : es \in DayEntrySeqs }

\* the series given to plot_ascii: up to MaxPoints points under the keys of a
\* granularity, with the titles and labels extract_numeric_data gives it.
\* The values are whole numbers a tenth of whose differences is whole, for
\* which the exact arithmetic of RowOf and RowLabel and the double arithmetic
\* of the code give the same rows and labels, and float('inf').
PlotValues == {
    Float(<<"1","0">>, << >>),
    Float(<<"1","5","0">>, << >>),
    Float(<<"1","6","0">>, << >>),
    Float(<<"1","0","0","0","0","0">>, << >>),
    Inf
}
PlotIntervals == {"minute", "hour", "quarter"}
\* the i-th key of a granularity, in the canonical form of parse_time_value;
\* the keys of a 'minute' series are inserted latest first
PlotKey(interval, i) ==
    CASE interval = "hour"    -> Fmt02d(8 + i) \o <<":", "0", "0">>
      [] interval = "minute"  -> <<"0", "9", ":">> \o Fmt02d(60 - 15 * i)
      [] interval = "quarter" -> <<"2", "0", "2", "4", "-", "Q">> \o StrOfNat(i)
      [] OTHER                -> StrOfNat(2019 + i)
SeriesOf(interval, vs) ==
    PlottableData(TitleMap(interval), Labels(interval)[1], Labels(interval)[2],
                  [i \in 1..Len(vs) |-> [k |-> PlotKey(interval, i), v |-> vs[i]]], interval)
Series ==
    { SeriesOf(interval, vs) : interval \in PlotIntervals,
                               vs \in UNION { [1..n -> PlotValues] : n \in 0..MaxPoints } }
Widths == {2, 3, 12}
Heights == {2, 5, 9}

(***************************************************************************)
(* The state: the input of one call (a text for detect_time_pattern or     *)
(* extract_numeric_data, a raw token for parse_time_value, a series for    *)
(* plot_ascii) and what the call computed.  The functions are pure and     *)
(* keep nothing between calls, so every behaviour is one call on one       *)
(* input.                                                                  *)
(***************************************************************************)
VARIABLES
    text,       \* the text given to detect_time_pattern or extract_numeric_data
    tok,        \* the raw token given to parse_time_value
    pd,         \* the PlottableData given to plot_ascii
    cls,        \* (time_format, interval): what detect_time_pattern(text) returned
    matches,    \* extract_numeric_data's local 'matches' (the findall result)
    rec,        \* what extract_numeric_data(text) returned
    key,        \* what parse_time_value(tok, fmt) returned
    dims,       \* the width and height given to plot_ascii
    plot,       \* what plot_ascii(pd, width, height) returned
    ser,        \* what serialize returned, for pd or for the record in rec
    messages,   \* ConversationHistory.messages
    cmp,        \* the call of history.compress_if_needed just made: its arguments
                \* and how it went
    llm,        \* the call of call_llm: its locals attempt and backoff, and how it went
    active_queues,          \* the keys of web.active_queues
    queues,                 \* the events put on the Queue of each query, in order
    session_agents,         \* web.session_agents: the Agent of each session, or None
    conversation_history,   \* the user messages (queries) added to each Agent's history
    subscribers,            \* Logger._subscribers of each Agent's logger
    worker,     \* the worker thread of each query: where it is, and its locals
    cleanup,    \* the cleanup thread of each query
    made,       \* the Agents constructed for each session since it was last cleared
    replaced    \* the Agents whose entry in session_agents was assigned over

callVars == << text, tok, pd, cls, matches, rec, key, dims, plot, ser >>
histVars == << messages, cmp, llm >>
webVars == << active_queues, queues, session_agents, conversation_history, subscribers,
              worker, cleanup, made, replaced >>
vars == << callVars, histVars, webVars >>

NoCls == [called |-> FALSE, fmt |-> "", interval |-> ""]
NoKey == [called |-> FALSE, fmt |-> "", kind |-> "", s |-> << >>]
NoDims == [width |-> 0, height |-> 0]

\* no call was made
CallsIdle ==
    /\ text = << >> /\ tok = << >> /\ pd = NoCall
    /\ cls = NoCls /\ matches = << >> /\ rec = NoCall /\ key = NoKey
    /\ dims = NoDims /\ plot = NoPlot /\ ser = NoSer

(***************************************************************************)
(* The conversation history as a state machine: one ConversationHistory,   *)
(* the operations on it, and call_llm on it, an invocation of the model at *)
(* a time.                                                                 *)
(***************************************************************************)
\* the token counts of a user message, the thresholds and keep_recent
\* values given to compress_if_needed
UserTokens == {1, 3}
Thresholds == {4, 8000}
KeepRecents == {0, 2, 6}

\* the tool call ids in use in a list, and the n smallest ids not in use
UsedIds(msgs) ==
    UNION { Range(msgs[i].tool_calls) \cup {msgs[i].tool_call_id} : i \in 1..Len(msgs) }
RECURSIVE FreshIds(_, _, _)
FreshIds(used, n, from) ==
    IF n = 0 THEN << >>
    ELSE IF from \in used THEN FreshIds(used, n, from + 1)
    ELSE << from >> \o FreshIds(used, n - 1, from + 1)

\* the arguments of add_ai_message: a pydantic model, an AIMessage with up
\* to MaxToolCalls tool calls (their ids are new), a str
AiMessages(msgs) ==
    { [kind |-> "AIMessage", tokens |-> 1, tool_calls |-> FreshIds(UsedIds(msgs), n, 1)] :
        n \in 0..MaxToolCalls }
AiArguments(msgs) ==
    { [kind |-> "BaseModel", tokens |-> 1, tool_calls |-> << >>],
      [kind |-> "str", tokens |-> 1, tool_calls |-> << >>] } \cup AiMessages(msgs)
\* the responses of runnable.invoke: a pydantic model, an AIMessage, or
\* another object
Responses(msgs) ==
    { [kind |-> "BaseModel", tokens |-> 1, tool_calls |-> << >>],
      [kind |-> "object", tokens |-> 1, tool_calls |-> << >>] } \cup AiMessages(msgs)

\* what the summarizer does on its attempts: rate limits, then an outcome
Scripts ==
    { [i \in 1..SummaryRetries |-> IF i < k THEN "RateLimitError" ELSE o] :
        k \in 1..SummaryRetries, o \in InvokeOutcomes }
WorkingScript == [i \in 1..SummaryRetries |-> "content"]
WorkingEnv == [encoding |-> TRUE, summarizer |-> TRUE, script |-> WorkingScript]
Envs ==
    { [encoding |-> TRUE, summarizer |-> TRUE, script |-> s] : s \in Scripts }
    \cup { [WorkingEnv EXCEPT !.encoding = FALSE], [WorkingEnv EXCEPT !.summarizer = FALSE] }
\* the environments a call can tell apart: the summarizer is only
\* constructed and invoked for a list that has a head to summarize
EnvsOf(msgs, token_threshold, keep_recent) ==
    IF compress_if_needed(msgs, token_threshold, keep_recent, WorkingEnv).outcome = "summarized"
    THEN Envs
    ELSE { WorkingEnv, [WorkingEnv EXCEPT !.encoding = FALSE] }

NoCmp == [called |-> FALSE, before |-> << >>, token_threshold |-> 0, keep_recent |-> 0,
          encoding |-> TRUE, outcome |-> "", invocations |-> 0, last |-> ""]
NoLlm == [pc |-> "idle", history |-> FALSE, max_retries |-> 0, attempt |-> 0, backoff |-> 1,
          invocations |-> 0, sleeps |-> << >>, error |-> "", sent |-> 0, base |-> << >>]

\* the record of a call of compress_if_needed
CmpOf(before, token_threshold, keep_recent, env, r) ==
    [called |-> TRUE, before |-> before, token_threshold |-> token_threshold,
     keep_recent |-> keep_recent, encoding |-> env.encoding, outcome |-> r.outcome,
     invocations |-> r.invocations, last |-> r.last]

HistIdle == messages = << >> /\ cmp = NoCmp /\ llm = NoLlm


(***************************************************************************)
(* finsight/web.py and finsight/utils/logger.py: the queries of the web    *)
(* UI.  A query has a queue in active_queues and a worker thread running   *)
(* run_agent_with_streaming; a session has an Agent in session_agents.     *)
(* The threads interleave between the statements that read or write what   *)
(* they share: the two dicts, the queues, an agent's history and its       *)
(* logger's subscribers.  An Agent is named by the query whose worker      *)
(* constructed it; a log callback by the query whose worker defined it.    *)
(***************************************************************************)
QueryIds == 1..MaxQueries
SessionIds == 1..MaxSessions
None == 0

\* the events put on a queue; 'from' is the query whose worker put it
Event(type, message, from) == [type |-> type, message |-> message, from |-> from]
Starting == "Starting analysis..."
Processing == "Processing your query..."

NoWorker == [pc |-> "unused", session_id |-> None, agent |-> None, logs |-> 0,
             pending |-> << >>]

WebIdle ==
    /\ active_queues = {}
    /\ queues = [q \in QueryIds |-> << >>]
    /\ session_agents = [s \in SessionIds |-> None]
    /\ conversation_history = [a \in QueryIds |-> << >>]
    /\ subscribers = [a \in QueryIds |-> << >>]
    /\ worker = [q \in QueryIds |-> NoWorker]
    /\ cleanup = [q \in QueryIds |-> "none"]
    /\ made = [s \in SessionIds |-> {}]
    /\ replaced = {}

Init ==
    /\ \/ text \in Texts /\ tok = << >> /\ pd = NoCall
       \/ text = << >> /\ tok \in Tokens /\ pd = NoCall
       \/ text = << >> /\ tok = << >> /\ pd \in Series
    /\ cls = NoCls
    /\ matches = << >>
    /\ rec = NoCall
    /\ key = NoKey
    /\ dims = NoDims
    /\ plot = NoPlot
    /\ ser = NoSer
    /\ HistIdle /\ WebIdle

NothingCalled ==
    /\ ~cls.called /\ rec.status = "not_called" /\ ~key.called
    /\ plot.status = "not_called" /\ ser.status = "not_called"

\* detect_time_pattern(text)
DetectTimePattern ==
    /\ NothingCalled /\ tok = << >> /\ pd = NoCall
    /\ \E c \in { detect_time_pattern(text) } :
          cls' = [called |-> TRUE, fmt |-> c.fmt, interval |-> c.interval]
    /\ UNCHANGED << text, tok, pd, matches, rec, key, dims, plot, ser,
                    histVars, webVars >>

\* extract_numeric_data(text): its locals time_format, interval and matches,
\* and what it returns
ExtractNumericData ==
    /\ NothingCalled /\ tok = << >> /\ pd = NoCall
    /\ \E c \in { detect_time_pattern(text) } :
       \E ms \in { FindAll(c.interval, text, 1) } :
          /\ cls' = [called |-> TRUE, fmt |-> c.fmt, interval |-> c.interval]
          /\ matches' = ms
          /\ rec' = ExtractFrom(c, ms)
    /\ UNCHANGED << text, tok, pd, key, dims, plot, ser,
                    histVars, webVars >>

\* parse_time_value(tok, fmt)
ParseTimeValue(fmt) ==
    /\ NothingCalled /\ text = << >> /\ pd = NoCall
    /\ \E r \in { parse_time_value(tok, fmt) } :
          key' = [called |-> TRUE, fmt |-> fmt, kind |-> r.kind, s |-> r.s]
    /\ UNCHANGED << text, tok, pd, cls, matches, rec, dims, plot, ser,
                    histVars, webVars >>

\* plot_ascii(pd, width, height); the argument is not assigned to
PlotAscii(width, height) ==
    /\ NothingCalled /\ pd # NoCall
    /\ dims' = [width |-> width, height |-> height]
    /\ plot' = plot_ascii(pd, width, height)
    /\ UNCHANGED << text, tok, pd, cls, matches, rec, key, ser,
                    histVars, webVars >>

\* serialize(pd), or serialize(extract_numeric_data(text)) once the record is
\* there
SerializeArg == IF pd # NoCall THEN pd ELSE rec
Serialize ==
    /\ ser.status = "not_called" /\ plot.status = "not_called"
    /\ pd # NoCall \/ rec.status = "data"
    /\ ser' = serialize(SerializeArg)
    /\ UNCHANGED << text, tok, pd, cls, matches, rec, key, dims, plot,
                    histVars, webVars >>

Next ==
    \/ DetectTimePattern
    \/ ExtractNumericData
    \/ \E fmt \in Formats : ParseTimeValue(fmt)
    \/ \E width \in Widths, height \in Heights : PlotAscii(width, height)
    \/ Serialize

Spec == Init /\ [][Next]_vars

\* the same calls on the day reports
DayInit ==
    /\ text \in DayTexts /\ tok = << >> /\ pd = NoCall
    /\ cls = NoCls
    /\ matches = << >>
    /\ rec = NoCall
    /\ key = NoKey
    /\ dims = NoDims
    /\ plot = NoPlot
    /\ ser = NoSer
    /\ HistIdle /\ WebIdle

DayNext ==
    \/ DetectTimePattern
    \/ ExtractNumericData
    \/ Serialize

DaySpec == DayInit /\ [][DayNext]_vars

(***************************************************************************)
(* The operations on the conversation history, and call_llm.               *)
(***************************************************************************)
\* history.add_user_message(message)
AddUserMessage(tokens) ==
    /\ Len(messages) < MaxMessages
    /\ messages' = add_user_message(messages, tokens)
    /\ cmp' = NoCmp
    /\ UNCHANGED << llm, callVars, webVars >>

\* history.add_ai_message(message)
AddAiMessage(message) ==
    /\ Len(messages) + 1 + Len(message.tool_calls) <= MaxMessages
    /\ messages' = add_ai_message(messages, message)
    /\ cmp' = NoCmp
    /\ UNCHANGED << llm, callVars, webVars >>

\* history.compress_if_needed(token_threshold=..., keep_recent=...)
CompressIfNeeded(token_threshold, keep_recent, env) ==
    /\ \E r \in { compress_if_needed(messages, token_threshold, keep_recent, env) } :
          /\ messages' = r.messages
          /\ cmp' = CmpOf(messages, token_threshold, keep_recent, env, r)
    /\ UNCHANGED << llm, callVars, webVars >>

\* call_llm up to its loop: the history is compressed, the messages are
\* built, the client is constructed (llm_ok: the constructor returns)
CallLlm(history, max_retries, history_token_threshold, env, llm_ok) ==
    /\ llm.pc # "loop" /\ Len(messages) + 1 + MaxToolCalls <= MaxCallMessages
    /\ \E r \in { IF history
                  THEN compress_if_needed(messages, history_token_threshold, KeepRecentOfCall, env)
                  ELSE Compressed(messages, "", NoLoop) } :
          /\ messages' = r.messages
          /\ llm' = [NoLlm EXCEPT
                       !.pc = IF llm_ok THEN "loop" ELSE "raised",
                       !.error = IF llm_ok THEN "" ELSE "Exception",
                       !.history = history,
                       !.max_retries = max_retries,
                       !.sent = IF ~llm_ok THEN 0
                                ELSE IF history
                                     THEN 2 + Len(get_recent_messages(r.messages, LimitOfCall))
                                     ELSE 2,
                       !.base = r.messages]
    /\ UNCHANGED << cmp, callVars, webVars >>

\* an iteration of the loop whose invoke returns: the history is updated
\* and the call returns
InvokeReturns(response) ==
    /\ llm.pc = "loop"
    /\ messages' = IF llm.history THEN add_ai_message(messages, MessageOf(response))
                   ELSE messages
    /\ llm' = [llm EXCEPT !.pc = "returned", !.invocations = @ + 1]
    /\ UNCHANGED << cmp, callVars, webVars >>

\* an iteration whose invoke raises: a retry after a sleep, or the raise
InvokeRaises(error) ==
    /\ llm.pc = "loop"
    /\ llm' = IF error \in Retryable
              THEN IF RetriesExhausted(llm.attempt + 1, llm.max_retries)
                   THEN [llm EXCEPT !.pc = "raised", !.error = error,
                                    !.invocations = @ + 1, !.attempt = @ + 1]
                   ELSE [llm EXCEPT !.invocations = @ + 1, !.attempt = @ + 1,
                                    !.sleeps = Append(@, llm.backoff), !.backoff = 2 * @]
              ELSE [llm EXCEPT !.pc = "raised", !.error = error, !.invocations = @ + 1]
    /\ UNCHANGED << messages, cmp, callVars, webVars >>

Errors == Retryable \cup {"Exception"}

Invoke ==
    \/ \E response \in Responses(messages) : InvokeReturns(response)
    \/ \E error \in Errors : InvokeRaises(error)

HistInit == HistIdle /\ CallsIdle /\ WebIdle

\* a conversation history and the operations on it
HistNext ==
    \/ \E tokens \in UserTokens : AddUserMessage(tokens)
    \/ \E message \in AiArguments(messages) : AddAiMessage(message)
    \/ \E token_threshold \in Thresholds, keep_recent \in KeepRecents :
          \E env \in EnvsOf(messages, token_threshold, keep_recent) :
             CompressIfNeeded(token_threshold, keep_recent, env)

HistSpec == HistInit /\ [][HistNext]_vars

\* a conversation history that call_llm is called on, again and again
LlmNext ==
    \/ \E history \in BOOLEAN, max_retries \in 0..MaxRetries,
          history_token_threshold \in Thresholds, llm_ok \in BOOLEAN :
          \E env \in EnvsOf(messages, history_token_threshold, KeepRecentOfCall) :
             CallLlm(history, max_retries, history_token_threshold, env, llm_ok)
    \/ Invoke

LlmSpec == HistInit /\ [][LlmNext]_vars

\* an invoke returns or raises: the loop of call_llm goes on
FairLlmSpec == LlmSpec /\ WF_vars(Invoke)

(***************************************************************************)
(* The steps of the web UI.                                                *)
(***************************************************************************)
\* queue.put(event) on the queue of query q
QueuePut(qs, q, event) == [qs EXCEPT ![q] = Append(@, event)]

\* list.remove(callback): the first occurrence goes, ValueError is passed over
RECURSIVE Remove(_, _)
Remove(subs, callback) ==
    IF Len(subs) = 0 THEN << >>
    ELSE IF Head(subs) = callback THEN Tail(subs)
    ELSE << Head(subs) >> \o Remove(Tail(subs), callback)

\* the next query id of the server
NextQuery(q) == worker[q].pc = "unused" /\ \A p \in 1..(q - 1) : worker[p].pc # "unused"

\* POST /api/query: an empty query is answered with an error; otherwise the
\* queue is registered and the worker thread started
ProcessQuery(q, session_id, empty) ==
    /\ NextQuery(q)
    /\ IF empty
       THEN /\ worker' = [worker EXCEPT ![q].pc = "rejected"]
            /\ UNCHANGED active_queues
       ELSE /\ active_queues' = active_queues \cup {q}
            /\ worker' = [worker EXCEPT ![q].pc = "start", ![q].session_id = session_id]
    /\ UNCHANGED << queues, session_agents, conversation_history, subscribers, cleanup,
                    made, replaced, callVars, histVars >>

\* POST /api/clear-session
ClearSession(session_id) ==
    /\ session_agents[session_id] # None
    /\ session_agents' = [session_agents EXCEPT ![session_id] = None]
    /\ made' = [made EXCEPT ![session_id] = {}]
    /\ UNCHANGED << active_queues, queues, conversation_history, subscribers, worker,
                    cleanup, replaced, callVars, histVars >>

\* the worker looks its queue up and, in get_or_create_agent, tests
\* 'session_id not in session_agents'
Start(q) ==
    /\ worker[q].pc = "start"
    /\ worker' = [worker EXCEPT ![q].pc =
                     IF q \notin active_queues THEN "returned"
                     ELSE IF session_agents[worker[q].session_id] = None THEN "create"
                     ELSE "fetch"]
    /\ UNCHANGED << active_queues, queues, session_agents, conversation_history,
                    subscribers, cleanup, made, replaced, callVars, histVars >>

\* session_agents[session_id] = Agent(); the constructor may raise, and the
\* exception leaves the thread
CreateAgent(q, constructed) ==
    /\ worker[q].pc = "create"
    /\ IF constructed
       THEN /\ session_agents' = [session_agents EXCEPT ![worker[q].session_id] = q]
            /\ made' = [made EXCEPT ![worker[q].session_id] = @ \cup {q}]
            /\ replaced' = replaced \cup ({session_agents[worker[q].session_id]} \ {None})
            /\ worker' = [worker EXCEPT ![q].pc = "fetch"]
       ELSE /\ worker' = [worker EXCEPT ![q].pc = "raised"]
            /\ UNCHANGED << session_agents, made, replaced >>
    /\ UNCHANGED << active_queues, queues, conversation_history, subscribers, cleanup,
                    callVars, histVars >>

\* return session_agents[session_id] (KeyError once the session is
\* cleared), then agent.conversation_history.add_user_message(query)
FetchAgent(q) ==
    /\ worker[q].pc = "fetch"
    /\ \E agent \in { session_agents[worker[q].session_id] } :
          IF agent = None
          THEN /\ worker' = [worker EXCEPT ![q].pc = "raised"]
               /\ UNCHANGED conversation_history
          ELSE /\ worker' = [worker EXCEPT ![q].pc = "try", ![q].agent = agent]
               /\ conversation_history' = [conversation_history EXCEPT ![agent] = Append(@, q)]
    /\ UNCHANGED << active_queues, queues, session_agents, subscribers, cleanup, made,
                    replaced, callVars, histVars >>

\* the first status event and agent.logger.subscribe(log_callback)
Subscribe(q) ==
    /\ worker[q].pc = "try"
    /\ queues' = QueuePut(queues, q, Event("status", Starting, q))
    /\ subscribers' = [subscribers EXCEPT ![worker[q].agent] = Append(@, q)]
    /\ worker' = [worker EXCEPT ![q].pc = "subscribed"]
    /\ UNCHANGED << active_queues, session_agents, conversation_history, cleanup, made,
                    replaced, callVars, histVars >>

\* the second status event; agent.run(query) begins
BeginRun(q) ==
    /\ worker[q].pc = "subscribed"
    /\ queues' = QueuePut(queues, q, Event("status", Processing, q))
    /\ worker' = [worker EXCEPT ![q].pc = "run"]
    /\ UNCHANGED << active_queues, session_agents, conversation_history, subscribers,
                    cleanup, made, replaced, callVars, histVars >>

\* agent.run logs a message: Logger._log copies the subscribers
AgentLogs(q) ==
    /\ worker[q].pc = "run" /\ worker[q].logs < MaxLogs
    /\ worker' = [worker EXCEPT ![q].pc = "logging", ![q].logs = @ + 1,
                                ![q].pending = subscribers[worker[q].agent]]
    /\ UNCHANGED << active_queues, queues, session_agents, conversation_history,
                    subscribers, cleanup, made, replaced, callVars, histVars >>

\* Logger._log calls the next subscriber of its copy: log_callback puts a
\* log event on the queue it was defined for
NotifySubscriber(q) ==
    /\ worker[q].pc = "logging"
    /\ IF Len(worker[q].pending) = 0
       THEN /\ worker' = [worker EXCEPT ![q].pc = "run"]
            /\ UNCHANGED queues
       ELSE /\ queues' = QueuePut(queues, Head(worker[q].pending), Event("log", "", q))
            /\ worker' = [worker EXCEPT ![q].pending = Tail(@)]
    /\ UNCHANGED << active_queues, session_agents, conversation_history, subscribers,
                    cleanup, made, replaced, callVars, histVars >>

\* agent.run returns: the plot event if there is plot data, the answer
RunReturns(q, plot_data) ==
    /\ worker[q].pc = "run"
    /\ queues' = IF plot_data
                 THEN QueuePut(QueuePut(queues, q, Event("plot", "Chart data available", q)),
                          q, Event("answer", "Analysis complete!", q))
                 ELSE QueuePut(queues, q, Event("answer", "Analysis complete!", q))
    /\ worker' = [worker EXCEPT ![q].pc = "answered"]
    /\ UNCHANGED << active_queues, session_agents, conversation_history, subscribers,
                    cleanup, made, replaced, callVars, histVars >>

\* agent.run raises
RunRaises(q) ==
    /\ worker[q].pc = "run"
    /\ worker' = [worker EXCEPT ![q].pc = "failed"]
    /\ UNCHANGED << active_queues, queues, session_agents, conversation_history,
                    subscribers, cleanup, made, replaced, callVars, histVars >>

\* finally: agent.logger.unsubscribe(log_callback)
Unsubscribe(q) ==
    /\ worker[q].pc \in {"answered", "failed"}
    /\ subscribers' = [subscribers EXCEPT ![worker[q].agent] = Remove(@, q)]
    /\ worker' = [worker EXCEPT ![q].pc = IF worker[q].pc = "answered" THEN "done" ELSE "except"]
    /\ UNCHANGED << active_queues, queues, session_agents, conversation_history, cleanup,
                    made, replaced, callVars, histVars >>

\* the done event (after the error event in the except branch), and the
\* outer finally: the cleanup thread is started
Finish(q) ==
    /\ worker[q].pc \in {"done", "except"}
    /\ queues' = IF worker[q].pc = "done"
                 THEN QueuePut(queues, q, Event("done", "", q))
                 ELSE QueuePut(QueuePut(queues, q, Event("error", "Error", q)), q, Event("done", "", q))
    /\ cleanup' = [cleanup EXCEPT ![q] = "sleeping"]
    /\ worker' = [worker EXCEPT ![q].pc = "returned"]
    /\ UNCHANGED << active_queues, session_agents, conversation_history, subscribers,
                    made, replaced, callVars, histVars >>

\* the cleanup thread after its sleep
Cleanup(q) ==
    /\ cleanup[q] = "sleeping"
    /\ active_queues' = active_queues \ {q}
    /\ cleanup' = [cleanup EXCEPT ![q] = "finished"]
    /\ UNCHANGED << queues, session_agents, conversation_history, subscribers, worker,
                    made, replaced, callVars, histVars >>

\* a step of the worker thread of query q
Worker(q) ==
    \/ Start(q)
    \/ \E constructed \in BOOLEAN : CreateAgent(q, constructed)
    \/ FetchAgent(q)
    \/ Subscribe(q)
    \/ BeginRun(q)
    \/ AgentLogs(q)
    \/ NotifySubscriber(q)
    \/ \E plot_data \in BOOLEAN : RunReturns(q, plot_data)
    \/ RunRaises(q)
    \/ Unsubscribe(q)
    \/ Finish(q)

WebInit == WebIdle /\ CallsIdle /\ HistIdle

WebNext ==
    \/ \E q \in QueryIds, session_id \in SessionIds, empty \in BOOLEAN :
          ProcessQuery(q, session_id, empty)
    \/ \E session_id \in SessionIds : ClearSession(session_id)
    \/ \E q \in QueryIds : Worker(q)
    \/ \E q \in QueryIds : Cleanup(q)

WebSpec == WebInit /\ [][WebNext]_vars

\* a started thread keeps running: the worker of a query goes on to its
\* end, and so does its cleanup thread
FairWebSpec ==
    /\ WebSpec
    /\ \A q \in QueryIds : WF_vars(Worker(q)) /\ WF_vars(Cleanup(q))

(***************************************************************************)
(* Vocabulary of the properties.                                           *)
(***************************************************************************)
Intervals == {"minute", "hour", "day", "quarter", "year"}
Called == rec.status # "not_called"
\* w occurs in t at position i, character for character
OccursAt(t, w, i) == i + Len(w) - 1 <= Len(t) /\ SubSeq(t, i, i + Len(w) - 1) = w
Contains(t, w) == \E i \in 1..Len(t) : OccursAt(t, w, i)
\* w occurs in t as a whole token: no word character touches it
OccursAsToken(t, w) ==
    \E i \in 1..Len(t) : OccursAt(t, w, i) /\ ~WordAt(t, i - 1) /\ ~WordAt(t, i + Len(w))
\* a numeric token that float() accepts once its commas are gone: it holds a
\* digit and at most one decimal point
Parseable(v) ==
    /\ \E i \in 1..Len(v) : v[i] \in Digits
    /\ Cardinality({ i \in 1..Len(v) : v[i] = "." }) <= 1
ParseableMatches == { k \in 1..Len(matches) : Parseable(matches[k].val) }
\* the key and the value a matched pair is stored under
KeyOf(m) == parse_time_value(m.tok, cls.fmt).s
ValueOf(m) == FloatOf(RemoveCommas(m.val)).val
\* the matches, in text order, whose pair is stored under key k
MatchesOf(k) == { n \in ParseableMatches : KeyOf(matches[n]) = k }
SetMax(S) == CHOOSE x \in S : \A y \in S : y <= x
Q3_2025 == <<"Q","3"," ","2","0","2","5">>
T0900 == <<"0","9",":","0","0">>
T1000 == <<"1","0",":","0","0">>

(***************************************************************************)
(* C1                                                                      *)
(***************************************************************************)
\* C1 as stated: every text that contains "Q3 2025" is classified quarter,
\* whatever letters or digits are next to it.
C1_AnyQ3IsQuarter ==
    (cls.called /\ Contains(text, Q3_2025)) => cls.interval = "quarter"

\* C1 amended: every text that contains "Q3 2025" as a whole token (no letter,
\* digit or underscore directly before the Q or directly after the year) is
\* classified quarter, whatever other tokens the text also contains.
C1_TokenQ3IsQuarter ==
    (cls.called /\ OccursAsToken(text, Q3_2025)) => cls.interval = "quarter"

\* a classified text holding the token "Q3 2025" next to an HH:MM time and
\* other 4-digit numbers
C1_Witness ==
    /\ cls.called /\ OccursAsToken(text, Q3_2025)
    /\ Contains(text, T0900) /\ HasYear(text)

(***************************************************************************)
(* C2                                                                      *)
(***************************************************************************)
\* C2: a text without a quarter token is classified year exactly when it holds
\* a bare 4-digit number and no H:MM or HH:MM time token (the tokens step 4 of
\* the classifier counts).
C2_YearIffNoTimeToken ==
    (cls.called /\ ~HasQuarter(text)) =>
        (cls.interval = "year" <=> (HasYear(text) /\ Len(FindTimeTokens(text, 1)) = 0))

(***************************************************************************)
(* C3                                                                      *)
(***************************************************************************)
\* C3: when the classifier reaches the time-token step with T tokens of which
\* Z end in ":00", it returns hour exactly when Z >= 1 and 2*Z >= T, and
\* minute otherwise.
C3_HourIffAtLeastHalf ==
    LET ms == FindTimeTokens(text, 1)
        T == Len(ms)
        Z == HourMatches(ms)
    IN  (/\ cls.called /\ ~HasQuarter(text) /\ ~(HasYear(text) /\ ~HasTwoDigitTime(text))
         /\ ~HasDay(text) /\ T >= 1)
        => /\ cls.interval \in {"hour", "minute"}
           /\ cls.interval = "hour" <=> (Z >= 1 /\ 2 * Z >= T)

(***************************************************************************)
(* C4                                                                      *)
(***************************************************************************)
\* C4: extract_numeric_data never raises; it returns None exactly when no
\* matched pair has a parseable numeric token, in particular for every text
\* without a marker word; otherwise it returns a record with at least one
\* point and with title, labels and interval set.
C4_NoneOrPopulated ==
    Called =>
        /\ rec.status \in {"none", "data"}
        /\ rec.status = "none" <=> ParseableMatches = {}
        /\ (~\E i \in 1..Len(text) : MarkerAt(text, i)) => rec.status = "none"
        /\ rec.status = "data" =>
              /\ Len(rec.data) >= 1
              /\ rec.title # "" /\ rec.x_label # "" /\ rec.y_label # ""
              /\ rec.interval \in Intervals

\* a text with matched pairs none of which parses: None, not an empty record
C4_Witness == Called /\ Len(matches) >= 1 /\ ParseableMatches = {} /\ rec.status = "none"

(***************************************************************************)
(* C5                                                                      *)
(***************************************************************************)
C5_Example ==
       <<"0","9",":","0","0"," ","C","l","o","s","e",":"," ","1","5","0",".","2","5",","," ">>
    \o <<"0","9",":","0","0"," ","C","l","o","s","e",":"," ","1","5","1",".","0","0",","," ">>
    \o <<"1","0",":","0","0"," ","C","l","o","s","e",":"," ","1","5","2",".","7","5">>

\* C5: in a returned series every key occurs once and holds the value of the
\* last parseable match, in text order, that normalizes to it; the text
\* "09:00 Close: 150.25, 09:00 Close: 151.00, 10:00 Close: 152.75" yields
\* exactly {09:00: 151.00, 10:00: 152.75} with hour granularity.
C5_UniqueKeysLastWins ==
    rec.status = "data" =>
        /\ \A i, j \in 1..Len(rec.data) : i # j => rec.data[i].k # rec.data[j].k
        /\ \A i \in 1..Len(rec.data) :
              /\ MatchesOf(rec.data[i].k) # {}
              /\ rec.data[i].v = ValueOf(matches[SetMax(MatchesOf(rec.data[i].k))])
        /\ text = C5_Example =>
              /\ rec.interval = "hour"
              /\ rec.data = << [k |-> T0900, v |-> [w |-> <<"1","5","1">>, f |-> << >>]],
                               [k |-> T1000, v |-> [w |-> <<"1","5","2">>, f |-> <<"7","5">>]] >>

\* the example text has been extracted: two matches share the key 09:00
C5_Witness ==
    /\ rec.status = "data" /\ text = C5_Example
    /\ Cardinality(MatchesOf(T0900)) = 2

(***************************************************************************)
(* C6                                                                      *)
(***************************************************************************)
\* a < b in the lexicographic order of str: a is a proper prefix of b, or the
\* first character in which they differ is smaller in a
LexLess(a, b) ==
    \E n \in 0..Len(a) :
        /\ n <= Len(b)
        /\ \A i \in 1..n : a[i] = b[i]
        /\ \/ n = Len(a) /\ n < Len(b)
           \/ n < Len(a) /\ n < Len(b) /\ Ord[a[n + 1]] < Ord[b[n + 1]]
\* the numbers written in a raw time token, left to right
RECURSIVE NumbersIn(_)
NumbersIn(s) ==
    IF Len(s) = 0 THEN << >>
    ELSE IF ~IsDigit(s[1]) THEN NumbersIn(Tail(s))
    ELSE LET e == RunEnd(s, 1, Digits)
         IN  << IntOf(Slice(s, 1, e)) >> \o NumbersIn(SubSeq(s, e, Len(s)))
\* the point in time a raw token of the text stands for: (hour, minute),
\* (month, day), (year, quarter) or (year)
TimeOf(token, interval) ==
    LET ns == NumbersIn(token)
    IN  IF interval = "quarter" THEN << ns[2], ns[1] >> ELSE ns
\* a is earlier than b
Earlier(a, b) ==
    \/ a[1] < b[1]
    \/ Len(a) = 2 /\ a[1] = b[1] /\ a[2] < b[2]

\* C6: the keys of a returned series are in strictly ascending lexicographic
\* order, and that is the chronological order of the points (of the time
\* tokens of the text they were read from), whatever order the text had.
C6_SortedChronologically ==
    rec.status = "data" =>
        \A i, j \in 1..Len(rec.data) : i < j =>
            /\ LexLess(rec.data[i].k, rec.data[j].k)
            /\ \A a \in MatchesOf(rec.data[i].k) : \A b \in MatchesOf(rec.data[j].k) :
                  Earlier(TimeOf(matches[a].tok, rec.interval),
                          TimeOf(matches[b].tok, rec.interval))

\* a series read from a text whose entries were not in chronological order
C6_Witness ==
    /\ rec.status = "data"
    /\ \E a, b \in ParseableMatches :
          a < b /\ Earlier(TimeOf(matches[b].tok, rec.interval),
                           TimeOf(matches[a].tok, rec.interval))

(***************************************************************************)
(* C7                                                                      *)
(***************************************************************************)
\* the characters of k at positions ps are digits
DigitsIn(k, ps) == \A p \in ps : p <= Len(k) /\ IsDigit(k[p])
\* k has the shape of the keys of the format: HH:MM, MM/DD, YYYY-Qn, YYYY
HasShape(k, fmt) ==
    CASE fmt = "%H:%M" -> Len(k) = 5 /\ DigitsIn(k, {1, 2, 4, 5}) /\ k[3] = ":"
      [] fmt = "%m/%d" -> Len(k) = 5 /\ DigitsIn(k, {1, 2, 4, 5}) /\ k[3] = "/"
      [] fmt = "%Y-Q"  -> Len(k) = 7 /\ DigitsIn(k, {1, 2, 3, 4, 7}) /\ k[5] = "-" /\ k[6] = "Q"
      [] fmt = "%Y"    -> Len(k) = 4 /\ DigitsIn(k, {1, 2, 3, 4})
      [] OTHER         -> FALSE
FormatOf(interval) ==
    CASE interval \in {"minute", "hour"} -> "%H:%M"
      [] interval = "day"     -> "%m/%d"
      [] interval = "quarter" -> "%Y-Q"
      [] interval = "year"    -> "%Y"
      [] OTHER                -> ""

\* C7: every key of a returned series has the canonical shape of the series'
\* granularity: HH:MM with the hour in 0..23, MM/DD, YYYY-Qn with n in 1..4,
\* or YYYY.
C7_CanonicalKeys ==
    rec.status = "data" =>
        \A i \in 1..Len(rec.data) :
            LET k == rec.data[i].k
            IN  /\ HasShape(k, FormatOf(rec.interval))
                /\ rec.interval \in {"minute", "hour"} => IntOf(SubSeq(k, 1, 2)) \in 0..23
                /\ rec.interval = "quarter" => DigitVal[k[7]] \in 1..4

(***************************************************************************)
(* C8                                                                      *)
(***************************************************************************)
\* s is t without its leading and trailing whitespace, and otherwise t
IsTrimOf(s, t) ==
    \E a \in 0..Len(t) : \E b \in a..Len(t) :
        /\ s = SubSeq(t, a + 1, b)
        /\ \A i \in 1..a : IsSpace(t[i])
        /\ \A i \in (b + 1)..Len(t) : IsSpace(t[i])
        /\ Len(s) > 0 => ~IsSpace(s[1]) /\ ~IsSpace(s[Len(s)])
\* t starts with M/D: one or two digits, a slash, a digit
StartsWithDay(t) ==
    \E a \in {1, 2} : DigitsAt(t, 1, a) /\ CharAt(t, a + 1, "/") /\ DigitAt(t, a + 2)

\* C8: parse_time_value never raises for a string token and one of the four
\* format tags: it returns a str, which is a key of the format's canonical
\* shape or the token with its surrounding whitespace trimmed; in the day
\* format, when the token does not start with M/D, it is the trimmed token.
C8_NormalizeFailSoft ==
    key.called =>
        /\ key.kind = "str"
        /\ HasShape(key.s, key.fmt) \/ IsTrimOf(key.s, tok)
        /\ (key.fmt = "%m/%d" /\ ~StartsWithDay(tok)) => IsTrimOf(key.s, tok)

\* the day branch was given a token that does not start with M/D and that has
\* whitespace to trim
C8_Witness ==
    /\ key.called /\ key.fmt = "%m/%d" /\ ~StartsWithDay(tok)
    /\ key.s # tok /\ Len(key.s) > 0

(***************************************************************************)
(* C9                                                                      *)
(***************************************************************************)
ParseableMatch(m) == Parseable(m.val)

\* C9: extract_numeric_data skips exactly the pairs whose numeric token does
\* not parse: whenever some pair parses it returns a series, the series has
\* an entry for every pair that parses and none for a key no such pair has,
\* and it is the series the parseable pairs alone would give.
C9_SkipsOnlyUnparseable ==
    (Called /\ ParseableMatches # {}) =>
        /\ rec.status = "data"
        /\ \A n \in ParseableMatches :
              \E i \in 1..Len(rec.data) : rec.data[i].k = KeyOf(matches[n])
        /\ \A i \in 1..Len(rec.data) : MatchesOf(rec.data[i].k) # {}
        /\ rec = ExtractFrom(cls, SelectSeq(matches, ParseableMatch))

\* a returned series with an unparseable pair on either side of a parseable one
C9_Witness ==
    /\ rec.status = "data"
    /\ \E a, b, c \in 1..Len(matches) :
          /\ a < b /\ b < c
          /\ a \notin ParseableMatches /\ b \in ParseableMatches /\ c \notin ParseableMatches

(***************************************************************************)
(* C10                                                                     *)
(***************************************************************************)
\* a 4-digit year at position i followed on its line by a marker, a run of
\* colons or whitespace and a parseable number
YearEntryAt(t, i) ==
    /\ DigitsAt(t, i, 4)
    /\ \E j \in (i + 4)..Len(t) :
          /\ \A n \in (i + 4)..(j - 1) : t[n] # "\n"
          /\ MarkerAt(t, j)
          /\ LET s == RunEnd(t, j + 5, SepChars)
                 v == RunEnd(t, s, NumChars)
             IN  s > j + 5 /\ v > s /\ Parseable(Slice(t, s, v))

\* C10: in year granularity the Billion/illion suffix is optional: a year
\* token followed by a marker, a separator and a number yields a data point
\* whether or not the suffix follows the number.
C10_SuffixOptional ==
    (Called /\ cls.interval = "year" /\ \E i \in 1..Len(text) : YearEntryAt(text, i))
        => rec.status = "data"

(***************************************************************************)
(* Vocabulary of the rendering properties.                                 *)
(***************************************************************************)
\* plot_ascii returned the chart of a non-empty series
Rendered == plot.status = "returned" /\ Len(pd.data) > 0
\* the lines of a text: the pieces between its newlines
RECURSIVE LinesOf(_)
LinesOf(t) ==
    LET nl == { i \in 1..Len(t) : t[i] = "\n" }
    IN  IF nl = {} THEN << t >>
        ELSE LET i == CHOOSE j \in nl : \A k \in nl : j <= k
             IN  << SubSeq(t, 1, i - 1) >> \o LinesOf(SubSeq(t, i + 1, Len(t)))
\* the text starts with an empty line, the title and an empty line; then come
\* the lines of the canvas rows 0..height-1, the x-axis and the x-axis labels
GridLine(i) == LinesOf(plot.out)[4 + i]
XLabelsLineOf == LinesOf(plot.out)[4 + dims.height + 1]
RowIndexes == 0..(dims.height - 1)
\* the points of the series in key order: the i-th (from 0) is the item with
\* i smaller keys
PointItem(i) ==
    CHOOSE it \in Range(pd.data) :
        Cardinality({ o \in Range(pd.data) : LexLess(o.k, it.k) }) = i
PointIndexes == 0..(Len(pd.data) - 1)
\* the writes of the plotting loop
Writes == Range(plot.writes)
PointWrite(i) == CHOOSE wr \in Writes : wr.kind = "point" /\ wr.i = i
SegmentWrites == { wr \in Writes : wr.kind = "segment" }
\* the character position, in a line without a numeric label, of canvas
\* column c: eight characters of padding and the axis come first
OffsetOf(c) == 8 + 1 + c

(***************************************************************************)
(* C11                                                                     *)
(***************************************************************************)
\* C11: in the returned text the x-axis label of the i-th point stands under
\* the canvas column where the point is plotted: the label covers the
\* character position of that column (in the rows without a numeric label
\* or, one further right, in the rows with one).
C11_LabelsUnderPoints ==
    Rendered =>
        \A i \in PointIndexes :
            LET label == PointItem(i).k
                c == PointWrite(i).x
            IN  \E s \in 1..Len(XLabelsLineOf) :
                    /\ OccursAt(XLabelsLineOf, label, s)
                    /\ s <= OffsetOf(c) + 1
                    /\ OffsetOf(c) <= s + Len(label) - 1

(***************************************************************************)
(* C12                                                                     *)
(***************************************************************************)
\* C12: all the grid rows of the returned text have the same number of
\* characters, the rows with a numeric label and the rows without alike.
C12_RowsAligned ==
    Rendered => \A i, j \in RowIndexes : Len(GridLine(i)) = Len(GridLine(j))

(***************************************************************************)
(* C13                                                                     *)
(***************************************************************************)
\* the values of the series are all equal
AllEqual == \A i, j \in 1..Len(pd.data) : pd.data[i].v = pd.data[j].v

\* C13: rendering a non-empty series whose values are all equal (width and
\* height at least 2) raises nothing and draws every point on one row.
C13_FlatSeriesRenders ==
    (plot.status # "not_called" /\ Len(pd.data) > 0 /\ AllEqual
        /\ dims.width >= 2 /\ dims.height >= 2) =>
        /\ plot.status = "returned"
        /\ \A i \in PointIndexes : \E wr \in Writes : wr.kind = "point" /\ wr.i = i
        /\ \A a, b \in Writes : (a.kind = "point" /\ b.kind = "point") => a.y = b.y

(***************************************************************************)
(* C15                                                                     *)
(***************************************************************************)
\* the titles and labels the claim lists, by granularity
ClaimedLabels ==
    [ minute  |-> << "Minutely Price Movement", "Time (Minutes)", "Price ($)" >>,
      hour    |-> << "Hourly Price Movement", "Time (Hours)", "Price ($)" >>,
      day     |-> << "Daily Price Movement", "Date", "Price ($)" >>,
      quarter |-> << "Quarterly Price Movement", "Quarter", "Value ($B)" >>,
      year    |-> << "Yearly Price Movement", "Year", "Value ($B)" >> ]

\* C15: the interval of a returned record is the granularity the classifier
\* chose for the text, one of the five, and its title, x-label and y-label
\* are the ones listed for that granularity, never the defaults of the
\* lookups.
C15_LabelsByGranularity ==
    rec.status = "data" =>
        /\ rec.interval = cls.interval
        /\ rec.interval \in Intervals
        /\ << rec.title, rec.x_label, rec.y_label >> = ClaimedLabels[rec.interval]
        /\ rec.title # "Price Movement" /\ rec.x_label # "Time" /\ rec.y_label # "Value"

\* a quarterly series was returned
C15_Witness ==
    /\ rec.status = "data" /\ rec.interval = "quarter"
    /\ rec.title = "Quarterly Price Movement" /\ rec.y_label = "Value ($B)"

(***************************************************************************)
(* C16                                                                     *)
(***************************************************************************)
NotComma(c) == c # ","
\* the number a numeric token without commas writes: its whole part and its
\* fraction as integers, with the fraction's digits counted
WrittenNumber(v) ==
    LET s == SelectSeq(v, NotComma)
        dots == { i \in 1..Len(s) : s[i] = "." }
        d == IF dots = {} THEN Len(s) + 1 ELSE CHOOSE i \in dots : TRUE
    IN  [whole |-> SubSeq(s, 1, d - 1), frac |-> SubSeq(s, d + 1, Len(s))]
\* the float v is the number written as whole.frac
SameNumber(v, n) ==
    /\ \E z \in 0..Len(n.whole) :
          /\ \A i \in 1..z : n.whole[i] = "0"
          /\ v.w = SubSeq(n.whole, z + 1, Len(n.whole))
          /\ Len(v.w) > 0 => v.w[1] # "0"
    /\ \E z \in 0..Len(n.frac) :
          /\ \A i \in (Len(n.frac) - z + 1)..Len(n.frac) : n.frac[i] = "0"
          /\ v.f = SubSeq(n.frac, 1, Len(n.frac) - z)
          /\ Len(v.f) > 0 => v.f[Len(v.f)] # "0"
\* the zero-padded MM/DD key of a matched M/D token
IsPaddedDay(k, token) ==
    /\ Len(k) = 5 /\ DigitsIn(k, {1, 2, 4, 5}) /\ k[3] = "/"
    /\ NumbersIn(k) = NumbersIn(token)
Day03_5 == <<"0","3","/","5"," ","P","r","i","c","e",":"," ","1",",","2","3","4",".","5","0"," ">>

\* C16: in a day-granularity text every matched M/D token with a parseable
\* number is stored under its zero-padded MM/DD key, the value stored under
\* a key is the number its last match writes once the commas are removed,
\* and "03/5 Price: 1,234.50" yields exactly {"03/05": 1234.5}.
C16_DayKeysAndCommas ==
    (Called /\ cls.interval = "day") =>
        /\ \A n \in ParseableMatches :
              \E i \in 1..Len(rec.data) :
                  /\ IsPaddedDay(rec.data[i].k, matches[n].tok)
                  /\ \E last \in ParseableMatches :
                        /\ IsPaddedDay(rec.data[i].k, matches[last].tok)
                        /\ \A o \in ParseableMatches :
                              IsPaddedDay(rec.data[i].k, matches[o].tok) => o <= last
                        /\ SameNumber(rec.data[i].v, WrittenNumber(matches[last].val))
        /\ text = Day03_5 =>
              /\ rec.status = "data"
              /\ Len(rec.data) = 1
              /\ rec.data[1].k = <<"0","3","/","0","5">>
              /\ rec.data[1].v = [w |-> <<"1","2","3","4">>, f |-> <<"5">>]

\* the example text, with an unpadded day and a number with a comma
C16_Witness ==
    /\ rec.status = "data" /\ cls.interval = "day"
    /\ Contains(text, Day03_5)
    /\ \E n \in ParseableMatches : \E i \in 1..Len(matches[n].val) : matches[n].val[i] = ","

(***************************************************************************)
(* C17                                                                     *)
(***************************************************************************)
\* the text holds a digit, the separator and a digit in a row
HasDigitSepDigit(t, sep) ==
    \E i \in 1..Len(t) : DigitAt(t, i) /\ CharAt(t, i + 1, sep) /\ DigitAt(t, i + 2)
\* the text holds a token of exactly four digits
HasFourDigitToken(t) ==
    \E i \in 1..Len(t) : DigitsAt(t, i, 4) /\ ~WordAt(t, i - 1) /\ ~WordAt(t, i + 4)
\* the text holds Q<digit>, whitespace and four digits
HasQuarterToken(t) ==
    \E i \in 1..Len(t) :
        /\ CharAtI(t, i, "q") /\ DigitAt(t, i + 1) /\ i + 2 <= Len(t) /\ IsSpace(t[i + 2])
        /\ \E j \in (i + 3)..Len(t) :
              (\A n \in (i + 2)..(j - 1) : IsSpace(t[n])) /\ DigitsAt(t, j, 4)
NoTimePattern(t) ==
    /\ ~HasDigitSepDigit(t, ":") /\ ~HasDigitSepDigit(t, "/")
    /\ ~HasQuarterToken(t) /\ ~HasFourDigitToken(t)
FormatTags ==
    { << "%H:%M", "minute" >>, << "%H:%M", "hour" >>, << "%m/%d", "day" >>,
      << "%Y-Q", "quarter" >>, << "%Y", "year" >> }

\* C17: detect_time_pattern returns one of the five granularities with the
\* format tag that belongs to it, and the default (%H:%M, minute) for a text
\* without a digit-colon-digit, digit-slash-digit, Q<digit> <year> or
\* 4-digit token.
C17_DefaultMinute ==
    cls.called =>
        /\ << cls.fmt, cls.interval >> \in FormatTags
        /\ NoTimePattern(text) => << cls.fmt, cls.interval >> = << "%H:%M", "minute" >>

\* a text with letters and digits but none of the time patterns was classified
C17_Witness ==
    /\ cls.called /\ NoTimePattern(text)
    /\ \E i \in 1..Len(text) : IsDigit(text[i])
    /\ \E i \in 1..Len(text) : text[i] \in Letters

(***************************************************************************)
(* C18                                                                     *)
(***************************************************************************)
\* C18: serialize returns the no-data signal for an empty series and
\* otherwise a mapping whose labels are the keys of the series in the
\* series' own order and whose values are the parallel values, so the two
\* lists have the same length; for an extracted series the labels are in
\* ascending (sorted) order.
C18_LabelsParallelValues ==
    ser.status # "not_called" =>
        LET data == SerializeArg.data
        IN  /\ Len(data) = 0 => ser.status = "no_data"
            /\ Len(data) > 0 =>
                  /\ ser.status = "mapping"
                  /\ Len(ser.labels) = Len(data) /\ Len(ser.values) = Len(ser.labels)
                  /\ \A i \in 1..Len(data) :
                        ser.labels[i] = data[i].k /\ ser.values[i] = data[i].v
            /\ rec.status = "data" =>
                  \A i, j \in 1..Len(ser.labels) :
                      i < j => LexLess(ser.labels[i], ser.labels[j])

\* the mapping of a series extracted from a text whose entries were not in
\* key order
C18_Witness ==
    /\ ser.status = "mapping" /\ rec.status = "data" /\ Len(ser.labels) >= 2
    /\ \E a, b \in ParseableMatches :
          a < b /\ LexLess(KeyOf(matches[b]), KeyOf(matches[a]))

(***************************************************************************)
(* C19                                                                     *)
(***************************************************************************)
\* the value of the i-th point, in hundredths
PointValue(i) == Hundredths(PointItem(i).v)

\* C19: for a non-empty series on a canvas of width and height at least 2,
\* every cell the plotting loop writes is inside the canvas, the points are
\* in columns 1..width-1 that never decrease with the point index, and a
\* point with a higher value is never on a lower row (a larger row index)
\* than a point with a lower value.
C19_WritesInsideCanvas ==
    (Rendered /\ dims.width >= 2 /\ dims.height >= 2) =>
        /\ \A wr \in Writes : wr.y \in 0..(dims.height - 1) /\ wr.x \in 0..(dims.width - 1)
        /\ \A i \in PointIndexes :
              /\ \E wr \in Writes : wr.kind = "point" /\ wr.i = i
              /\ PointWrite(i).x \in 1..(dims.width - 1)
        /\ \A i, j \in PointIndexes :
              /\ i < j => PointWrite(i).x <= PointWrite(j).x
              /\ PointValue(i) > PointValue(j) => PointWrite(i).y <= PointWrite(j).y

\* a chart of three points of different values, the middle one the highest,
\* drawn in different columns and rows with segments between them
C19_Witness ==
    /\ Rendered /\ Len(pd.data) = 3 /\ SegmentWrites # {}
    /\ PointValue(0) < PointValue(2) /\ PointValue(2) < PointValue(1)
    /\ PointWrite(1).y < PointWrite(2).y /\ PointWrite(2).y < PointWrite(0).y
    /\ PointWrite(0).x < PointWrite(1).x /\ PointWrite(1).x < PointWrite(2).x

(***************************************************************************)
(* C20                                                                     *)
(***************************************************************************)
\* C20: connecting glyphs are written only for a point after the first and
\* only in the columns strictly between the column of the previous point
\* and its own, in every one of them once, so never in the cell of a point;
\* the glyphs of a segment are all the upward glyph when the point's row
\* index is smaller than the previous point's, the downward glyph when it
\* is larger and the flat glyph when the rows are equal.
C20_SegmentsBetweenPoints ==
    Rendered =>
        /\ \A wr \in SegmentWrites :
              /\ wr.i \in PointIndexes /\ wr.i >= 1
              /\ PointWrite(wr.i - 1).x < wr.x /\ wr.x < PointWrite(wr.i).x
              /\ wr.glyph = (IF PointWrite(wr.i).y < PointWrite(wr.i - 1).y THEN Up
                             ELSE IF PointWrite(wr.i).y > PointWrite(wr.i - 1).y THEN Down
                             ELSE HLine)
              /\ \A pt \in Writes : pt.kind = "point" => ~(pt.x = wr.x /\ pt.y = wr.y)
        /\ \A i \in PointIndexes : \A c \in 0..(dims.width - 1) :
              (i >= 1 /\ PointWrite(i - 1).x < c /\ c < PointWrite(i).x) =>
                  Cardinality({ wr \in SegmentWrites : wr.i = i /\ wr.x = c }) = 1
        /\ Len(pd.data) = 1 => SegmentWrites = {}

\* a chart with a rising and a falling segment
C20_Witness ==
    /\ Rendered
    /\ \E up, down \in SegmentWrites :
          /\ up.glyph = Up /\ PointWrite(up.i).y < PointWrite(up.i - 1).y
          /\ down.glyph = Down /\ PointWrite(down.i).y > PointWrite(down.i - 1).y


(***************************************************************************)
(* C21: a text made only of entries "MM/DD Price: <number>" with parseable *)
(* numbers is classified 'day' and extracted as a day series with one      *)
(* point per distinct date, whatever the digit count of the prices.        *)
(***************************************************************************)
\* the distinct dates of the entries a day report was put together from
DatesOf(es) == { es[i][1] : i \in 1..Len(es) }

\* C21: every call on a day report selects the 'day' granularity, and
\* extract_numeric_data returns a day series with one point per distinct date
C21_DayWhateverTheNumbers ==
    \A es \in DayEntrySeqs :
        text = DayText(es) =>
            /\ cls.called => cls.interval = "day"
            /\ Called => /\ rec.status = "data"
                         /\ rec.interval = "day"
                         /\ Len(rec.data) = Cardinality(DatesOf(es))

(***************************************************************************)
(* C22: call_llm invokes the model at most max_retries + 1 times and ends  *)
(* by returning or raising; it retries only after an APIConnectionError or *)
(* a RateLimitError, sleeping 1, 2, 4, ... seconds; it re-raises once the  *)
(* failures exceed max_retries; another exception leaves at once; the      *)
(* history gets one AI message if the call returns and none if it raises.  *)
(***************************************************************************)
RECURSIVE Pow2(_)
Pow2(n) == IF n = 0 THEN 1 ELSE 2 * Pow2(n - 1)
IsPrefixOf(a, b) == Len(a) <= Len(b) /\ SubSeq(b, 1, Len(a)) = a
AIMessagesIn(msgs) == { i \in 1..Len(msgs) : msgs[i].type = "AIMessage" }
\* the messages the call has appended to the history it was given
AppendedByCall == SubSeq(messages, Len(llm.base) + 1, Len(messages))

C22_Retries ==
    /\ llm.invocations <= llm.max_retries + 1
    /\ llm.sleeps = [i \in 1..Len(llm.sleeps) |-> Pow2(i - 1)]
    \* an invocation is followed by another one only after a retryable
    \* failure and its sleep
    /\ llm.invocations \in { Len(llm.sleeps), Len(llm.sleeps) + 1 }
    /\ llm.pc = "loop" => llm.invocations = Len(llm.sleeps)
    /\ llm.pc = "returned" => llm.invocations = Len(llm.sleeps) + 1
    /\ llm.pc = "raised" /\ llm.error \in Retryable =>
          llm.invocations = llm.max_retries + 1 /\ Len(llm.sleeps) = llm.max_retries
    /\ llm.pc = "raised" /\ llm.error \notin Retryable =>
          llm.invocations = 0 \/ llm.invocations = Len(llm.sleeps) + 1

C22_History ==
    /\ llm.pc # "idle" => IsPrefixOf(llm.base, messages)
    /\ llm.pc = "returned" /\ llm.history =>
          Cardinality(AIMessagesIn(AppendedByCall)) = 1 /\ AppendedByCall[1].type = "AIMessage"
    /\ llm.pc = "returned" /\ ~llm.history => messages = llm.base
    /\ llm.pc \in {"loop", "raised"} => messages = llm.base

\* C22: at every point of a call of call_llm the invocations, the sleeps and
\* the history are as the retry rule says, and a call inside its loop ends:
\* it returns or it raises
C22_CallLlmRetriesAndEnds ==
    /\ [](C22_Retries /\ C22_History)
    /\ (llm.pc = "loop") ~> (llm.pc \in {"returned", "raised"})

\* C22 witness: a call given a history returned after two retries and their
\* sleeps of 1 and 2 seconds, and appended to the history
C22_Witness ==
    /\ llm.pc = "returned" /\ llm.history /\ llm.max_retries = 2
    /\ llm.sleeps = << 1, 2 >> /\ llm.invocations = 3
    /\ Len(messages) > Len(llm.base)

(***************************************************************************)
(* C23: compress_if_needed leaves the list alone when the token count is   *)
(* at most token_threshold or there are at most keep_recent messages;      *)
(* otherwise the list becomes the last keep_recent messages, after exactly *)
(* one summary SystemMessage if the summarization succeeded and after      *)
(* nothing if it failed.                                                   *)
(***************************************************************************)
\* the last k messages of a list, in their order
LastMessages(msgs, k) == [i \in 1..k |-> msgs[Len(msgs) - k + i]]
\* an invocation of the summarizer returned a response
SummarizationSucceeded == cmp.last \in {"content", "empty"}
IsSummary(m) == m.type = "SystemMessage"

\* C23: after a call of compress_if_needed whose token count was computed,
\* the list is the list before, or the last keep_recent messages of it after
\* one summary (success) or after nothing (failure), as the claim says
C23_CompressFrame ==
    cmp.called /\ cmp.encoding =>
        IF \/ token_count(cmp.before) <= cmp.token_threshold
           \/ Len(cmp.before) <= cmp.keep_recent
        THEN messages = cmp.before
        ELSE /\ Len(messages) <= cmp.keep_recent + 1
             /\ IF SummarizationSucceeded
                THEN /\ Len(messages) = cmp.keep_recent + 1
                     /\ IsSummary(messages[1])
                     /\ Tail(messages) = LastMessages(cmp.before, cmp.keep_recent)
                ELSE messages = LastMessages(cmp.before, cmp.keep_recent)

(***************************************************************************)
(* C24: every ToolMessage of the list comes after the AIMessage whose      *)
(* tool_calls produced it.                                                 *)
(***************************************************************************)
ProducedBy(tm, ai) == ai.type = "AIMessage" /\ tm.tool_call_id \in Range(ai.tool_calls)

KindOf(event) == IF event.type = "status" THEN event.message ELSE event.type
KindsOn(q) == [i \in 1..Len(queues[q]) |-> KindOf(queues[q][i])]
Accepted(q) == worker[q].pc \notin {"unused", "rejected"}
\* the worker thread of the query has ended, by a return or by an exception
Ended(q) == worker[q].pc \in {"returned", "raised"}
DoneOn(q) == \E i \in 1..Len(queues[q]) : queues[q][i].type = "done"

(***************************************************************************)
(* C25: the events of a query come in the order status "Starting           *)
(* analysis...", status "Processing your query...", log events, then a     *)
(* plot event (optional) and one answer event, or one error event, then    *)
(* one done event.                                                         *)
(***************************************************************************)
Endings == { << "answer" >>, << "plot", "answer" >>, << "error" >> }
\* the full sequence of a query with n log events and an ending
EventsOfRun(n, ending) ==
    << Starting, Processing >> \o [i \in 1..n |-> "log"] \o ending \o << "done" >>
InOrder(kinds) ==
    \E n \in 0..Len(kinds), ending \in Endings : IsPrefixOf(kinds, EventsOfRun(n, ending))
Complete(kinds) ==
    \E n \in 0..Len(kinds), ending \in Endings : kinds = EventsOfRun(n, ending)

\* C25: the events on the queue of an accepted query are, at every moment,
\* the beginning of such a sequence, and the whole of one once the worker
\* has ended
C25_EventOrder ==
    \A q \in QueryIds :
        Accepted(q) => /\ InOrder(KindsOn(q))
                       /\ Ended(q) => Complete(KindsOn(q))

(***************************************************************************)
(* C26: an accepted query eventually has a done event on its queue and     *)
(* eventually has its entry removed from active_queues; a query rejected   *)
(* as empty has no queue and no worker.                                    *)
(***************************************************************************)
\* C26: every accepted query gets its done event and loses its entry in
\* active_queues, and a rejected query never has a queue, an event or a
\* thread
C26_AcceptedQueriesFinish ==
    /\ \A q \in QueryIds : Accepted(q) ~> DoneOn(q)
    /\ \A q \in QueryIds : Accepted(q) ~> (q \notin active_queues)
    /\ [](\A q \in QueryIds :
            worker[q].pc = "rejected" =>
                q \notin active_queues /\ queues[q] = << >> /\ cleanup[q] = "none")
    /\ [][\A q \in QueryIds : worker[q].pc = "rejected" => worker'[q].pc = "rejected"]_vars

(***************************************************************************)
(* C27: the queue of a query receives only the log events of its own agent *)
(* run, and nothing after its done event.                                  *)
(***************************************************************************)
\* C27: a log event on the queue of a query was logged by the run of that
\* query, and a done event is the last event of its queue
C27_QueuesIsolated ==
    \A q \in QueryIds : \A i \in 1..Len(queues[q]) :
        /\ queues[q][i].type = "log" => queues[q][i].from = q
        /\ queues[q][i].type = "done" => i = Len(queues[q])

(***************************************************************************)
(* C28: between two clear-session calls a session has one Agent, also when *)
(* two workers of a new session call get_or_create_agent concurrently, and *)
(* no user message is lost to a discarded Agent.                           *)
(***************************************************************************)
\* C28: since a session was last cleared at most one Agent was constructed
\* for it, every worker that got one of these got the session's Agent, and
\* no Agent whose entry was assigned over holds a user message
C28_OneAgentPerSession ==
    /\ \A s \in SessionIds : Cardinality(made[s]) <= 1
    /\ \A q \in QueryIds :
          worker[q].agent # None /\ worker[q].agent \in made[worker[q].session_id] =>
              worker[q].agent = session_agents[worker[q].session_id]
    /\ \A a \in replaced : conversation_history[a] = << >>

=============================================================================
